---- MODULE Spec2Model ----
(***************************************************************************)
(* A model of the RTMP connection engine (Conn.InitializeClient,           *)
(* Conn.InitializeServer, Conn.readCommandResult, Conn.ReadTracks) of      *)
(* src/internal/core/formatprocessor_h265.go.                              *)
(*                                                                         *)
(* Every procedure is a sequential flow whose only suspension points are   *)
(* the reads and writes on the message channel.  One action of the model   *)
(* is one such channel operation together with the local computation that  *)
(* follows it up to the next channel operation or the return.  Every       *)
(* channel operation is appended to a log, the messages a read delivers    *)
(* and the outcome (success or a transport error) of every read and write  *)
(* are chosen by the environment.                                          *)
(*                                                                         *)
(* Strings that are taken apart by the code (URLs, paths) are sequences    *)
(* of tokens; every other string is a one-token sequence.                  *)
(*                                                                         *)
(* The H265 format processor of the same file (rtpH265ExtractVPSSPSPPS,    *)
(* formatProcessorH265.process) has a specification of its own, SpecH265.  *)
(***************************************************************************)
EXTENDS Integers, Sequences, FiniteSets, TLC

(***************************************************************************)
(* Bounds of the model.                                                    *)
(***************************************************************************)
\* reads one run of InitializeServer may perform
MaxSrvReads == 4

\* messages one run of InitializeClient may skip while it awaits results
MaxCliSkips == 2

\* reads one run of ReadTracks may perform
MaxTrkReads == 4

\* calls of process one flow may make on its format processor
MaxCalls == 2

(***************************************************************************)
(* Errors.  NoErr is Go's nil error.                                       *)
(***************************************************************************)
NoErr == "nil"

\* the errors mrw.Read and mrw.Write may return
ChanErrs == {"EOF", "i/o timeout"}

\* the outcomes of one channel operation
ChanOutcomes == {NoErr} \cup ChanErrs

(***************************************************************************)
(* AMF0 values (flvio): nil, string, float64, bool, AMFMap.                *)
(***************************************************************************)
AMFNull == [t |-> "null"]

AMFString(s) == [t |-> "string", s |-> s]

AMFNumber(n) == [t |-> "number", n |-> n]

AMFBool(b) == [t |-> "bool", b |-> b]

\* an AMFMap is an ordered list of key/value pairs
AMFMap(kvs) == [t |-> "map", m |-> kvs]

KV(k, v) == [K |-> k, V |-> v]

\* a one-token string
S1(tok) == AMFString(<<tok>>)

MapHas(kvs, k) == \E i \in 1..Len(kvs) : kvs[i].K = k

\* AMFMap.GetV: the value of the first pair whose key is k
MapGetV(kvs, k) ==
    kvs[CHOOSE i \in 1..Len(kvs) :
            /\ kvs[i].K = k
            /\ \A j \in 1..(i - 1) : kvs[j].K # k].V

\* AMFMap.GetString: (value, ok); ok needs the key and a string value
MapGetStringOK(kvs, k) == MapHas(kvs, k) /\ MapGetV(kvs, k).t = "string"

MapGetString(kvs, k) == MapGetV(kvs, k).s

\* AMFMap.GetFloat64 with the error dropped: 0 when absent or not a number
MapGetFloat64(kvs, k) ==
    IF MapHas(kvs, k) /\ MapGetV(kvs, k).t = "number"
    THEN MapGetV(kvs, k).n
    ELSE 0

(***************************************************************************)
(* Messages of the channel.                                                *)
(***************************************************************************)
NoMsg == [typ |-> "none"]

MsgSetWindowAckSize(v) == [typ |-> "SetWindowAckSize", Value |-> v]

MsgSetPeerBandwidth(v, t) == [typ |-> "SetPeerBandwidth", Value |-> v, Type |-> t]

MsgSetChunkSize(v) == [typ |-> "SetChunkSize", Value |-> v]

MsgUserControlStreamIsRecorded(sid) ==
    [typ |-> "UserControlStreamIsRecorded", StreamID |-> sid]

MsgUserControlStreamBegin(sid) ==
    [typ |-> "UserControlStreamBegin", StreamID |-> sid]

MsgUserControlSetBufferLength(bl) ==
    [typ |-> "UserControlSetBufferLength", BufferLength |-> bl]

MsgCommandAMF0(csid, msid, name, id, args) ==
    [typ |-> "CommandAMF0", ChunkStreamID |-> csid, MessageStreamID |-> msid,
     Name |-> name, CommandID |-> id, Arguments |-> args]

IsCommand(m) == m.typ = "CommandAMF0"

(***************************************************************************)
(* The channel log: one entry per mrw.Read / mrw.Write call.               *)
(***************************************************************************)
ReadEntry(m, e) == [op |-> "read", msg |-> m, err |-> e]

WriteEntry(m, e) == [op |-> "write", msg |-> m, err |-> e]

\* the number of entries of kind o in channel log l
CountOp(l, o) == Cardinality({k \in 1..Len(l) : l[k].op = o})

\* the messages written, in order (failed writes excluded)
RECURSIVE Written(_)
Written(l) ==
    IF l = <<>> THEN <<>>
    ELSE LET last == l[Len(l)]
             r == Written(SubSeq(l, 1, Len(l) - 1))
         IN IF last.op = "write" /\ last.err = NoErr THEN Append(r, last.msg) ELSE r

(***************************************************************************)
(* URLs.  A URL string is a sequence of tokens: "rtmp:" (a scheme with its *)
(* colon), "//" (the authority marker), "/" , "?" , "%" (an invalid        *)
(* percent escape) and name tokens.                                        *)
(***************************************************************************)
NoURL == [Scheme |-> <<>>, Host |-> <<>>, Path |-> <<>>, RawQuery |-> <<>>, nil |-> TRUE]

\* index of the first occurrence of tok in s, or Len(s) + 1
IndexOf(s, tok) ==
    IF \E i \in 1..Len(s) : s[i] = tok
    THEN CHOOSE i \in 1..Len(s) : s[i] = tok /\ \A j \in 1..(i - 1) : s[j] # tok
    ELSE Len(s) + 1

Tail0(s, n) == SubSeq(s, n + 1, Len(s))

\* net/url.Parse on token strings: [err, u]
URLParse(raw) ==
    IF \E i \in 1..Len(raw) : raw[i] = "%"
    THEN [err |-> "invalid URL escape", u |-> NoURL]
    ELSE LET hasScheme == Len(raw) > 0 /\ raw[1] = "rtmp:"
             scheme == IF hasScheme THEN <<"rtmp">> ELSE <<>>
             rest0 == IF hasScheme THEN Tail0(raw, 1) ELSE raw
             q == IndexOf(rest0, "?")
             rest == SubSeq(rest0, 1, q - 1)
             query == Tail0(rest0, q)
             hasAuth == Len(rest) > 0 /\ rest[1] = "//"
             afterAuth == IF hasAuth THEN Tail0(rest, 1) ELSE rest
             p == IndexOf(afterAuth, "/")
             host == IF hasAuth THEN SubSeq(afterAuth, 1, p - 1) ELSE <<>>
             path == IF hasAuth THEN Tail0(afterAuth, p - 1) ELSE afterAuth
         IN [err |-> NoErr,
             u |-> [Scheme |-> scheme, Host |-> host, Path |-> path,
                    RawQuery |-> query, nil |-> FALSE]]

\* net/url.ParseRequestURI on a token string that starts with "/"
URLParseRequestURI(raw) ==
    IF \E i \in 1..Len(raw) : raw[i] = "%"
    THEN [err |-> "invalid URL escape", u |-> NoURL]
    ELSE LET q == IndexOf(raw, "?")
         IN [err |-> NoErr,
             u |-> [Scheme |-> <<>>, Host |-> <<>>,
                    Path |-> SubSeq(raw, 1, q - 1),
                    RawQuery |-> Tail0(raw, q), nil |-> FALSE]]

\* createURL(tcurl, app, play): [err, u]
createURL(tcurl, app, play) ==
    LET r == URLParseRequestURI(<<"/">> \o app \o <<"/">> \o play)
        t == URLParse(tcurl)
    IN IF r.err # NoErr THEN [err |-> r.err, u |-> NoURL]
       ELSE IF t.err # NoErr THEN [err |-> t.err, u |-> NoURL]
       ELSE IF t.u.Host = <<>> THEN [err |-> "invalid host", u |-> NoURL]
       ELSE IF t.u.Scheme = <<>> THEN [err |-> "invalid scheme", u |-> NoURL]
       ELSE [err |-> NoErr,
             u |-> [r.u EXCEPT !.Host = t.u.Host, !.Scheme = t.u.Scheme]]

(***************************************************************************)
(* State.                                                                  *)
(*   op   the operation the caller runs on the connection                  *)
(*   log  the channel operations (mrw.Read, mrw.Write) performed so far    *)
(*   srv  the locals and the return values of Conn.InitializeServer        *)
(*   cli  the arguments, locals and return value of Conn.InitializeClient  *)
(*   trk  the locals and the return values of Conn.ReadTracks              *)
(*   h265 the track and the format processors of the H265 flows            *)
(*   net  the two directions of a connection whose ends are both modelled  *)
(***************************************************************************)
VARIABLES op, log, srv, cli, trk, h265, net

vars == <<op, log, srv, cli, trk, h265, net>>

\* a connection with nothing in flight: client to server, server to client
NetIdle == [c2s |-> <<>>, s2c |-> <<>>]

(***************************************************************************)
(* Conn.InitializeServer                                                   *)
(***************************************************************************)
\* the positions of InitializeServer
SrvPcs == {"handshake", "readConnect", "connectReply", "loop",
           "createStreamResult", "play", "publish", "done"}

SrvIdle ==
    [pc |-> "handshake", i |-> 1, cmd |-> NoMsg, connectpath |-> <<>>,
     tcURL |-> <<>>, oe |-> 0, u |-> NoURL,
     ret |-> [u |-> NoURL, isPublishing |-> FALSE, err |-> NoErr]]

\* InitializeServer is the operation that runs; the other operations' locals
\* are untouched
SrvFrame ==
    /\ op = "InitializeServer"
    /\ UNCHANGED <<op, cli, trk, h265, net>>

\* return (u, isPublishing, err)
SrvReturn(s, u, isPublishing, err) ==
    [s EXCEPT !.pc = "done",
              !.ret = [u |-> u, isPublishing |-> isPublishing, err |-> err]]

\* handshake.DoServer(c.bc, false), an operation of the byte stream
SrvHandshake ==
    /\ SrvFrame
    /\ srv.pc = "handshake"
    /\ \E e \in {NoErr, "handshake failed"} :
          srv' = IF e = NoErr THEN [srv EXCEPT !.pc = "readConnect"]
                 ELSE SrvReturn(srv, NoURL, FALSE, e)
    /\ UNCHANGED log

\* ConnectCheck without the check of the command's name
ConnectCheck_NoName(cmd) ==
    IF Len(cmd.Arguments) < 1 THEN "invalid connect command"
    ELSE IF cmd.Arguments[1].t # "map" THEN "invalid connect command"
    ELSE IF ~MapGetStringOK(cmd.Arguments[1].m, "app") THEN "invalid connect command"
    ELSE IF /\ ~MapGetStringOK(cmd.Arguments[1].m, "tcUrl")
            /\ ~MapGetStringOK(cmd.Arguments[1].m, "tcurl")
         THEN "invalid connect command"
    ELSE NoErr

\* the checks of the first command, lines 551-575: the error, or NoErr
ConnectCheck(cmd) ==
    IF cmd.Name # "connect" THEN "unexpected command"
    ELSE IF Len(cmd.Arguments) < 1 THEN "invalid connect command"
    ELSE IF cmd.Arguments[1].t # "map" THEN "invalid connect command"
    ELSE IF ~MapGetStringOK(cmd.Arguments[1].m, "app") THEN "invalid connect command"
    ELSE IF /\ ~MapGetStringOK(cmd.Arguments[1].m, "tcUrl")
            /\ ~MapGetStringOK(cmd.Arguments[1].m, "tcurl")
         THEN "invalid connect command"
    ELSE NoErr

\* tcURL of a connect command that passed ConnectCheck
ConnectTcURL(cmd) ==
    IF MapGetStringOK(cmd.Arguments[1].m, "tcUrl")
    THEN MapGetString(cmd.Arguments[1].m, "tcUrl")
    ELSE MapGetString(cmd.Arguments[1].m, "tcurl")

\* the three control messages and the _result reply to connect, lines 577-617
ConnectReplies(cmd, oe) ==
    << MsgSetWindowAckSize(2500000),
       MsgSetPeerBandwidth(2500000, 2),
       MsgSetChunkSize(65536),
       MsgCommandAMF0(cmd.ChunkStreamID, 0, "_result", cmd.CommandID,
          << AMFMap(<< KV("fmsVer", S1("LNX 9,0,124,2")),
                       KV("capabilities", AMFNumber(31)) >>),
             AMFMap(<< KV("level", S1("status")),
                       KV("code", S1("NetConnection.Connect.Success")),
                       KV("description", S1("Connection succeeded.")),
                       KV("objectEncoding", AMFNumber(oe)) >>) >>) >>

\* CreateStreamResult on the client's usual chunk stream instead of the request's
CreateStreamResult_FixedChunkStream(cmd) ==
    MsgCommandAMF0(3, 0, "_result", cmd.CommandID, << AMFNull, AMFNumber(1) >>)

\* the reply to createStream, lines 630-638
CreateStreamResult(cmd) ==
    MsgCommandAMF0(cmd.ChunkStreamID, 0, "_result", cmd.CommandID,
                   << AMFNull, AMFNumber(1) >>)

\* OnStatus with command id 0 instead of the request's
OnStatus_NoCommandID(cmd, code, description) ==
    MsgCommandAMF0(5, 16777216, "onStatus", 0,
       << AMFNull,
          AMFMap(<< KV("level", S1("status")),
                    KV("code", S1(code)),
                    KV("description", S1(description)) >>) >>)

\* an onStatus notification of the server, message stream 0x1000000
OnStatus(cmd, code, description) ==
    MsgCommandAMF0(5, 16777216, "onStatus", cmd.CommandID,
       << AMFNull,
          AMFMap(<< KV("level", S1("status")),
                    KV("code", S1(code)),
                    KV("description", S1(description)) >>) >>)

\* PlayReplies with play-start written before play-reset
PlayReplies_StartFirst(cmd) ==
    << MsgUserControlStreamIsRecorded(1),
       MsgUserControlStreamBegin(1),
       OnStatus(cmd, "NetStream.Play.Start", "play start"),
       OnStatus(cmd, "NetStream.Play.Reset", "play reset"),
       OnStatus(cmd, "NetStream.Data.Start", "data start"),
       OnStatus(cmd, "NetStream.Play.PublishNotify", "publish notify") >>

\* the messages written in answer to play, lines 658-739
PlayReplies(cmd) ==
    << MsgUserControlStreamIsRecorded(1),
       MsgUserControlStreamBegin(1),
       OnStatus(cmd, "NetStream.Play.Reset", "play reset"),
       OnStatus(cmd, "NetStream.Play.Start", "play start"),
       OnStatus(cmd, "NetStream.Data.Start", "data start"),
       OnStatus(cmd, "NetStream.Play.PublishNotify", "publish notify") >>

\* PublishReplies with a stream-begin ahead of the notification
PublishReplies_StreamBegin(cmd) ==
    << MsgUserControlStreamBegin(1),
       OnStatus(cmd, "NetStream.Publish.Start", "publish start") >>

\* the messages written in answer to publish, lines 761-774
PublishReplies(cmd) ==
    << OnStatus(cmd, "NetStream.Publish.Start", "publish start") >>

\* the argument check of play and publish, lines 644-651 and 747-754
ActionPathOK(cmd) ==
    /\ Len(cmd.Arguments) >= 2
    /\ cmd.Arguments[2].t = "string"

(***************************************************************************)
(* The messages the peer of InitializeServer may send.                     *)
(***************************************************************************)
GoodTcURL == <<"rtmp:", "//", "h", "/", "a">>

\* the argument lists of the connect commands the peer may send
SrvConnectArgs ==
    { <<>>,
      << S1("x") >>,
      << AMFMap(<< KV("tcUrl", AMFString(GoodTcURL)) >>) >>,
      << AMFMap(<< KV("app", AMFNumber(1)), KV("tcUrl", AMFString(GoodTcURL)) >>) >>,
      << AMFMap(<< KV("app", AMFString(<<"a">>)) >>) >>,
      << AMFMap(<< KV("app", AMFString(<<"a">>)),
                   KV("tcUrl", AMFString(GoodTcURL)) >>) >>,
      << AMFMap(<< KV("app", AMFString(<<"a">>)),
                   KV("tcurl", AMFString(GoodTcURL)),
                   KV("objectEncoding", AMFNumber(3)) >>) >>,
      << AMFMap(<< KV("app", AMFString(<<"a">>)),
                   KV("tcUrl", AMFString(<<"rtmp:", "/", "a">>)) >>) >>,
      << AMFMap(<< KV("app", AMFString(<<"a">>)),
                   KV("tcUrl", AMFString(<<"//", "h", "/", "a">>)) >>) >> }

\* what the first reads may deliver
SrvFirstMsgs ==
    { MsgCommandAMF0(3, 0, "connect", 1, a) : a \in SrvConnectArgs }
    \cup { MsgSetWindowAckSize(2500000),
           MsgCommandAMF0(3, 0, "createStream", 2, << AMFNull >>),
           MsgCommandAMF0(3, 0, "Connect", 1,
              << AMFMap(<< KV("app", AMFString(<<"a">>)),
                           KV("tcUrl", AMFString(GoodTcURL)) >>) >>) }

\* what the reads of the command loop may deliver
SrvLoopMsgs ==
    { MsgSetChunkSize(65536),
      MsgCommandAMF0(3, 0, "createStream", 2, << AMFNull >>),
      MsgCommandAMF0(8, 0, "createStream", 4, << AMFNull >>),
      MsgCommandAMF0(3, 0, "releaseStream", 2, << AMFNull, AMFString(<<"s">>) >>),
      MsgCommandAMF0(3, 0, "FCPublish", 3, << AMFNull, AMFString(<<"s">>) >>),
      MsgCommandAMF0(4, 16777216, "play", 3, << AMFNull, AMFString(<<"s">>) >>),
      MsgCommandAMF0(4, 16777216, "play", 3, << AMFNull >>),
      MsgCommandAMF0(4, 16777216, "play", 3, << AMFNull, AMFNumber(1) >>),
      MsgCommandAMF0(4, 16777216, "play", 3, << AMFNull, AMFString(<<"%">>) >>),
      MsgCommandAMF0(4, 16777216, "publish", 5,
                     << AMFNull, AMFString(<<"s">>), AMFString(<<"a">>) >>),
      MsgCommandAMF0(4, 16777216, "publish", 5, << AMFNull >>),
      MsgCommandAMF0(4, 16777216, "publish", 5, << AMFNull, AMFBool(TRUE) >>) }

\* c.readCommand() at line 546 and the checks of lines 551-575: one mrw.Read;
\* a message that is no command is skipped
SrvReadConnect ==
    /\ SrvFrame
    /\ srv.pc = "readConnect"
    /\ CountOp(log, "read") < MaxSrvReads
    /\ \E e \in ChanOutcomes :
          IF e # NoErr
          THEN /\ log' = Append(log, ReadEntry(NoMsg, e))
               /\ srv' = SrvReturn(srv, NoURL, FALSE, e)
          ELSE \E m \in SrvFirstMsgs :
                 /\ log' = Append(log, ReadEntry(m, NoErr))
                 /\ srv' =
                      IF ~IsCommand(m) THEN srv
                      ELSE IF ConnectCheck(m) # NoErr
                           THEN SrvReturn([srv EXCEPT !.cmd = m], NoURL, FALSE,
                                          ConnectCheck(m))
                      ELSE [srv EXCEPT
                              !.pc = "connectReply", !.i = 1, !.cmd = m,
                              !.connectpath = MapGetString(m.Arguments[1].m, "app"),
                              !.tcURL = ConnectTcURL(m),
                              !.oe = MapGetFloat64(m.Arguments[1].m, "objectEncoding")]

\* one c.mrw.Write of lines 577-620
SrvWriteConnectReply ==
    /\ SrvFrame
    /\ srv.pc = "connectReply"
    /\ \E e \in ChanOutcomes :
          /\ log' = Append(log,
                 WriteEntry(ConnectReplies(srv.cmd, srv.oe)[srv.i], e))
          /\ srv' = IF e # NoErr THEN SrvReturn(srv, NoURL, FALSE, e)
                    ELSE IF srv.i < Len(ConnectReplies(srv.cmd, srv.oe))
                         THEN [srv EXCEPT !.i = srv.i + 1]
                    ELSE [srv EXCEPT !.pc = "loop", !.i = 1]

\* where the command loop goes after reading command cmd, lines 628-780
SrvDispatch(s, cmd) ==
    IF cmd.Name = "createStream"
    THEN [s EXCEPT !.pc = "createStreamResult", !.cmd = cmd]
    ELSE IF cmd.Name \in {"play", "publish"}
    THEN IF ~ActionPathOK(cmd)
         THEN SrvReturn([s EXCEPT !.cmd = cmd], NoURL, FALSE,
                        IF cmd.Name = "play"
                        THEN "invalid play command arguments"
                        ELSE "invalid publish command arguments")
         ELSE LET r == createURL(s.tcURL, s.connectpath, cmd.Arguments[2].s)
              IN IF r.err # NoErr
                 THEN SrvReturn([s EXCEPT !.cmd = cmd], NoURL, FALSE, r.err)
                 ELSE [s EXCEPT !.pc = cmd.Name, !.i = 1, !.cmd = cmd, !.u = r.u]
    ELSE [s EXCEPT !.cmd = cmd]

\* c.readCommand() at line 623 and the switch on the command's name
SrvReadLoop ==
    /\ SrvFrame
    /\ srv.pc = "loop"
    /\ CountOp(log, "read") < MaxSrvReads
    /\ \E e \in ChanOutcomes :
          IF e # NoErr
          THEN /\ log' = Append(log, ReadEntry(NoMsg, e))
               /\ srv' = SrvReturn(srv, NoURL, FALSE, e)
          ELSE \E m \in SrvLoopMsgs :
                 /\ log' = Append(log, ReadEntry(m, NoErr))
                 /\ srv' = IF IsCommand(m) THEN SrvDispatch(srv, m) ELSE srv

\* SrvWriteCreateStreamResult that goes on after a failed write
SrvWriteCreateStreamResult_IgnoreError ==
    /\ SrvFrame
    /\ srv.pc = "createStreamResult"
    /\ \E e \in ChanOutcomes :
          /\ log' = Append(log, WriteEntry(CreateStreamResult(srv.cmd), e))
          /\ srv' = [srv EXCEPT !.pc = "loop"]

\* the c.mrw.Write of lines 630-641
SrvWriteCreateStreamResult ==
    /\ SrvFrame
    /\ srv.pc = "createStreamResult"
    /\ \E e \in ChanOutcomes :
          /\ log' = Append(log, WriteEntry(CreateStreamResult(srv.cmd), e))
          /\ srv' = IF e # NoErr THEN SrvReturn(srv, NoURL, FALSE, e)
                    ELSE [srv EXCEPT !.pc = "loop"]

\* one c.mrw.Write of lines 658-742, and the return of line 744
SrvWritePlay ==
    /\ SrvFrame
    /\ srv.pc = "play"
    /\ \E e \in ChanOutcomes :
          /\ log' = Append(log, WriteEntry(PlayReplies(srv.cmd)[srv.i], e))
          /\ srv' = IF e # NoErr THEN SrvReturn(srv, NoURL, FALSE, e)
                    ELSE IF srv.i < Len(PlayReplies(srv.cmd))
                         THEN [srv EXCEPT !.i = srv.i + 1]
                    ELSE SrvReturn(srv, srv.u, FALSE, NoErr)

\* the c.mrw.Write of lines 761-777, and the return of line 779
SrvWritePublish ==
    /\ SrvFrame
    /\ srv.pc = "publish"
    /\ \E e \in ChanOutcomes :
          /\ log' = Append(log, WriteEntry(PublishReplies(srv.cmd)[srv.i], e))
          /\ srv' = IF e # NoErr THEN SrvReturn(srv, NoURL, FALSE, e)
                    ELSE IF srv.i < Len(PublishReplies(srv.cmd))
                         THEN [srv EXCEPT !.i = srv.i + 1]
                    ELSE SrvReturn(srv, srv.u, TRUE, NoErr)

(***************************************************************************)
(* splitPath and getTcURL                                                  *)
(***************************************************************************)
\* url.URL.RequestURI with ForceQuery = false
RequestURI(u) ==
    (IF u.Path = <<>> THEN <<"/">> ELSE u.Path)
    \o (IF u.RawQuery # <<>> THEN <<"?">> \o u.RawQuery ELSE <<>>)

\* url.URL.String
URLString(u) ==
    (IF u.Scheme # <<>> THEN <<"rtmp:">> ELSE <<>>)
    \o (IF (u.Scheme # <<>> \/ u.Host # <<>>) /\ (u.Host # <<>> \/ u.Path # <<>>)
        THEN <<"//">> \o u.Host ELSE <<>>)
    \o u.Path
    \o (IF u.RawQuery # <<>> THEN <<"?">> \o u.RawQuery ELSE <<>>)

\* strings.Split(s, "/")
RECURSIVE SplitSlash(_)
SplitSlash(s) ==
    LET i == IndexOf(s, "/")
    IN IF i > Len(s) THEN << s >>
       ELSE << SubSeq(s, 1, i - 1) >> \o SplitSlash(Tail0(s, i))

\* strings.Join(segs, "/")
RECURSIVE JoinSlash(_)
JoinSlash(segs) ==
    IF Len(segs) = 0 THEN <<>>
    ELSE IF Len(segs) = 1 THEN segs[1]
    ELSE segs[1] \o <<"/">> \o JoinSlash(Tail(segs))

\* splitPath that keeps one segment only of a stream of several
splitPath_FirstOfStream(u) ==
    LET pathsegs == SplitSlash(RequestURI(u))
    IN IF Len(pathsegs) = 2 THEN [app |-> pathsegs[2], stream |-> <<>>]
       ELSE IF Len(pathsegs) = 3 THEN [app |-> pathsegs[2], stream |-> pathsegs[3]]
       ELSE IF Len(pathsegs) > 3
            THEN [app |-> JoinSlash(SubSeq(pathsegs, 2, 3)), stream |-> pathsegs[4]]
       ELSE [app |-> <<>>, stream |-> <<>>]

\* splitPath(u): (app, stream); pathsegs[k] of the code is pathsegs[k + 1] here
splitPath(u) ==
    LET pathsegs == SplitSlash(RequestURI(u))
    IN IF Len(pathsegs) = 2 THEN [app |-> pathsegs[2], stream |-> <<>>]
       ELSE IF Len(pathsegs) = 3 THEN [app |-> pathsegs[2], stream |-> pathsegs[3]]
       ELSE IF Len(pathsegs) > 3
            THEN [app |-> JoinSlash(SubSeq(pathsegs, 2, 3)),
                  stream |-> JoinSlash(SubSeq(pathsegs, 4, Len(pathsegs)))]
       ELSE [app |-> <<>>, stream |-> <<>>]

\* getTcURL(u)
getTcURL(u) ==
    LET nu == URLParse(URLString(u)).u
    IN URLString([nu EXCEPT !.RawQuery = <<>>, !.Path = <<"/">>]) \o splitPath(u).app

(***************************************************************************)
(* resultIsOK1, resultIsOK2, readCommandResult                             *)
(***************************************************************************)
resultIsOK1(res) ==
    IF Len(res.Arguments) < 2 THEN FALSE
    ELSE IF res.Arguments[2].t # "map" THEN FALSE
    ELSE IF ~MapGetStringOK(res.Arguments[2].m, "level") THEN FALSE
    ELSE MapGetString(res.Arguments[2].m, "level") = <<"status">>

resultIsOK2(res) ==
    IF Len(res.Arguments) < 2 THEN FALSE
    ELSE IF res.Arguments[2].t # "number" THEN FALSE
    ELSE res.Arguments[2].n = 1

\* the isValid argument of readCommandResult, called
isValid(f, cmd) ==
    IF f = "resultIsOK1" THEN resultIsOK1(cmd) ELSE resultIsOK2(cmd)

\* readCommandResult that takes the first command with the expected id
readCommandResult_AnyName(commandID, commandName, f, msg) ==
    IF IsCommand(msg) /\ msg.CommandID = commandID
    THEN IF ~isValid(f, msg) THEN "server refused connect request" ELSE NoErr
    ELSE "continue"

\* one iteration of readCommandResult's loop on the message read: the error
\* returned, NoErr for "return nil", or "continue"
readCommandResult(commandID, commandName, f, msg) ==
    IF IsCommand(msg) /\ msg.CommandID = commandID /\ msg.Name = commandName
    THEN IF ~isValid(f, msg) THEN "server refused connect request" ELSE NoErr
    ELSE "continue"

(***************************************************************************)
(* Conn.InitializeClient(u, isPublishing)                                  *)
(***************************************************************************)
\* a c.mrw.Write(m) of InitializeClient
StepWrite(m) == [k |-> "write", msg |-> m]

\* a c.readCommandResult(id, name, f) of InitializeClient
StepAwait(id, name, f) == [k |-> "await", id |-> id, name |-> name, f |-> f]

\* lines 386-429
CliConnectSteps(connectpath, tcUrl) ==
    << StepWrite(MsgSetWindowAckSize(2500000)),
       StepWrite(MsgSetPeerBandwidth(2500000, 2)),
       StepWrite(MsgSetChunkSize(65536)),
       StepWrite(MsgCommandAMF0(3, 0, "connect", 1,
          << AMFMap(<< KV("app", AMFString(connectpath)),
                       KV("flashVer", S1("LNX 9,0,124,2")),
                       KV("tcUrl", AMFString(tcUrl)),
                       KV("fpad", AMFBool(FALSE)),
                       KV("capabilities", AMFNumber(15)),
                       KV("audioCodecs", AMFNumber(4071)),
                       KV("videoCodecs", AMFNumber(252)),
                       KV("videoFunction", AMFNumber(1)) >>) >>)),
       StepAwait(1, "_result", "resultIsOK1") >>

\* CliPlaySteps with play written before the createStream result is awaited
CliPlaySteps_EarlyPlay(actionpath) ==
    << StepWrite(MsgCommandAMF0(3, 0, "createStream", 2, << AMFNull >>)),
       StepWrite(MsgUserControlSetBufferLength(100)),
       StepWrite(MsgCommandAMF0(4, 16777216, "play", 3,
                                << AMFNull, AMFString(actionpath) >>)),
       StepAwait(2, "_result", "resultIsOK2"),
       StepAwait(3, "onStatus", "resultIsOK1") >>

\* lines 434-474
CliPlaySteps(actionpath) ==
    << StepWrite(MsgCommandAMF0(3, 0, "createStream", 2, << AMFNull >>)),
       StepAwait(2, "_result", "resultIsOK2"),
       StepWrite(MsgUserControlSetBufferLength(100)),
       StepWrite(MsgCommandAMF0(4, 16777216, "play", 3,
                                << AMFNull, AMFString(actionpath) >>)),
       StepAwait(3, "onStatus", "resultIsOK1") >>

\* CliPublishSteps that awaits a result of releaseStream
CliPublishSteps_AwaitRelease(connectpath, actionpath) ==
    << StepWrite(MsgCommandAMF0(3, 0, "releaseStream", 2,
                                << AMFNull, AMFString(actionpath) >>)),
       StepAwait(2, "_result", "resultIsOK2"),
       StepWrite(MsgCommandAMF0(3, 0, "FCPublish", 3,
                                << AMFNull, AMFString(actionpath) >>)),
       StepWrite(MsgCommandAMF0(3, 0, "createStream", 4, << AMFNull >>)),
       StepAwait(4, "_result", "resultIsOK2"),
       StepWrite(MsgCommandAMF0(4, 16777216, "publish", 5,
                                << AMFNull, AMFString(actionpath),
                                   AMFString(connectpath) >>)),
       StepAwait(5, "onStatus", "resultIsOK1") >>

\* lines 476-534
CliPublishSteps(connectpath, actionpath) ==
    << StepWrite(MsgCommandAMF0(3, 0, "releaseStream", 2,
                                << AMFNull, AMFString(actionpath) >>)),
       StepWrite(MsgCommandAMF0(3, 0, "FCPublish", 3,
                                << AMFNull, AMFString(actionpath) >>)),
       StepWrite(MsgCommandAMF0(3, 0, "createStream", 4, << AMFNull >>)),
       StepAwait(4, "_result", "resultIsOK2"),
       StepWrite(MsgCommandAMF0(4, 16777216, "publish", 5,
                                << AMFNull, AMFString(actionpath),
                                   AMFString(connectpath) >>)),
       StepAwait(5, "onStatus", "resultIsOK1") >>

\* the channel operations of InitializeClient, in program order
CliSteps(c) ==
    CliConnectSteps(c.connectpath, c.tcUrl)
    \o (IF ~c.isPublishing THEN CliPlaySteps(c.actionpath)
        ELSE CliPublishSteps(c.connectpath, c.actionpath))

\* the URLs InitializeClient may be called with
CliURLs ==
    { URLParse(raw).u :
        raw \in { <<"rtmp:", "//", "h", "/", "a", "/", "s">>,
                  <<"rtmp:", "//", "h", "/", "a", "/", "b", "/", "s", "?", "q">> } }

CliIdle ==
    [pc |-> "idle", i |-> 1, u |-> NoURL, isPublishing |-> FALSE,
     connectpath |-> <<>>, actionpath |-> <<>>, tcUrl |-> <<>>, err |-> NoErr]

\* the state at the call of InitializeClient(u, isPublishing), line 377 done;
\* tcUrl holds getTcURL(u), which line 416 uses
CliEntry(u, isPublishing) ==
    [pc |-> "handshake", i |-> 1, u |-> u, isPublishing |-> isPublishing,
     connectpath |-> splitPath(u).app, actionpath |-> splitPath(u).stream,
     tcUrl |-> getTcURL(u), err |-> NoErr]

CliFrame ==
    /\ op = "InitializeClient"
    /\ UNCHANGED <<op, srv, trk, h265, net>>

\* return err
CliReturn(c, err) == [c EXCEPT !.pc = "done", !.err = err]

\* the step at which InitializeClient stands
CliStep == CliSteps(cli)[cli.i]

\* the step is over without error: go to the next one, or return nil
CliAdvance(c) ==
    IF c.i < Len(CliSteps(c)) THEN [c EXCEPT !.i = c.i + 1] ELSE CliReturn(c, NoErr)

\* handshake.DoClient(c.bc, false), lines 379-384
CliHandshake ==
    /\ CliFrame
    /\ cli.pc = "handshake"
    /\ \E e \in {NoErr, "handshake failed"} :
          cli' = IF e = NoErr THEN [cli EXCEPT !.pc = "run"] ELSE CliReturn(cli, e)
    /\ UNCHANGED log

\* one c.mrw.Write of InitializeClient and its error check
CliWrite ==
    /\ CliFrame
    /\ cli.pc = "run"
    /\ CliStep.k = "write"
    /\ \E e \in ChanOutcomes :
          /\ log' = Append(log, WriteEntry(CliStep.msg, e))
          /\ cli' = IF e # NoErr THEN CliReturn(cli, e) ELSE CliAdvance(cli)

\* the messages InitializeClient may receive
CliInMsgs ==
    { MsgSetWindowAckSize(2500000),
      MsgCommandAMF0(3, 0, "_result", 1,
         << AMFMap(<< KV("fmsVer", S1("LNX 9,0,124,2")) >>),
            AMFMap(<< KV("level", S1("status")),
                      KV("code", S1("NetConnection.Connect.Success")) >>) >>),
      MsgCommandAMF0(3, 0, "_result", 1,
         << AMFNull, AMFMap(<< KV("level", S1("error")) >>) >>),
      MsgCommandAMF0(3, 0, "onStatus", 1,
         << AMFNull, AMFMap(<< KV("level", S1("status")) >>) >>),
      MsgCommandAMF0(3, 0, "_result", 2, << AMFNull, AMFNumber(1) >>),
      MsgCommandAMF0(3, 0, "_result", 2, << AMFNull, AMFNumber(0) >>),
      MsgCommandAMF0(3, 0, "_result", 4, << AMFNull, AMFNumber(1) >>),
      MsgCommandAMF0(5, 16777216, "onStatus", 3,
         << AMFNull, AMFMap(<< KV("level", S1("status")),
                               KV("code", S1("NetStream.Play.Reset")) >>) >>),
      MsgCommandAMF0(5, 16777216, "onStatus", 3,
         << AMFNull, AMFMap(<< KV("level", AMFNumber(1)) >>) >>),
      MsgCommandAMF0(5, 16777216, "onStatus", 5,
         << AMFNull, AMFMap(<< KV("level", S1("status")),
                               KV("code", S1("NetStream.Publish.Start")) >>) >>) }

\* the messages read and skipped so far: the reads that ended no
\* readCommandResult
CliSkipped ==
    CountOp(log, "read")
    - Cardinality({j \in 1..(cli.i - 1) : CliSteps(cli)[j].k = "await"})

\* one iteration of the loop of c.readCommandResult, lines 357-372
CliReadCommandResult ==
    /\ CliFrame
    /\ cli.pc = "run"
    /\ CliStep.k = "await"
    /\ \E e \in ChanOutcomes :
          IF e # NoErr
          THEN /\ log' = Append(log, ReadEntry(NoMsg, e))
               /\ cli' = CliReturn(cli, e)
          ELSE \E m \in CliInMsgs :
                 LET r == readCommandResult(CliStep.id, CliStep.name, CliStep.f, m)
                 IN /\ r = "continue" => CliSkipped < MaxCliSkips
                    /\ log' = Append(log, ReadEntry(m, NoErr))
                    /\ cli' = IF r = "continue" THEN cli
                              ELSE IF r # NoErr THEN CliReturn(cli, r)
                              ELSE CliAdvance(cli)

(***************************************************************************)
(* Media and data messages, payloads, tracks.                              *)
(***************************************************************************)
codecH264 == 7

codecAAC == 10

\* flvio.AVC_SEQHDR (and flvio.AAC_SEQHDR): the packet is a decoder configuration
AVC_SEQHDR == 0

\* h265.NALUType values
NALUType_VPS_NUT == 32

NALUType_SPS_NUT == 33

NALUType_PPS_NUT == 34

\* 1*time.Second, in the unit of the DTS values of the model (500 ms)
OneSecond == 2

MsgDataAMF0(payload) == [typ |-> "DataAMF0", Payload |-> payload]

MsgVideo(h264Type, isKeyFrame, payload, dts) ==
    [typ |-> "Video", H264Type |-> h264Type, IsKeyFrame |-> isKeyFrame,
     Payload |-> payload, DTS |-> dts]

MsgAudio(aacType, payload, dts) ==
    [typ |-> "Audio", AACType |-> aacType, Payload |-> payload, DTS |-> dts]

\* payloads: an AVC decoder configuration record with its SPS and PPS, an
\* AudioSpecificConfig, a list of length-prefixed NALUs (AVCC), or bytes
\* that are none of these
PayloadAVCConf(sps, pps) == [k |-> "avcC", SPS |-> sps, PPS |-> pps]

PayloadAACConf(config) == [k |-> "asc", Config |-> config]

PayloadAVCC(nalus) == [k |-> "avcc", nalus |-> nalus]

PayloadJunk == [k |-> "junk"]

NoTrack == [nil |-> TRUE]

\* a nil *format.H264 held in a format.Format
NilH264 == [nil |-> TRUE, dyn |-> "*format.H264"]

\* trackFromH264DecoderConfig(data): [err, track]
trackFromH264DecoderConfig(data) ==
    IF data.k # "avcC"
    THEN [err |-> "unable to parse H264 config", track |-> NoTrack]
    ELSE [err |-> NoErr,
          track |-> [nil |-> FALSE, codec |-> "H264", PayloadTyp |-> 96,
                     SPS |-> data.SPS, PPS |-> data.PPS, PacketizationMode |-> 1]]

\* trackFromAACDecoderConfig(data): [err, track]
trackFromAACDecoderConfig(data) ==
    IF data.k # "asc"
    THEN [err |-> "mpeg4audio: invalid configuration", track |-> NoTrack]
    ELSE [err |-> NoErr,
          track |-> [nil |-> FALSE, codec |-> "MPEG4Audio", PayloadTyp |-> 96,
                     Config |-> data.Config, SizeLength |-> 13,
                     IndexLength |-> 3, IndexDeltaLength |-> 3]]

\* h264.AVCCUnmarshal(payload): [err, nalus]
AVCCUnmarshal(data) ==
    IF data.k # "avcc" THEN [err |-> "invalid length", nalus |-> <<>>]
    ELSE [err |-> NoErr, nalus |-> data.nalus]

\* h265.NALUType((nalu[0] >> 1) & 0b111111)
H265NALUType(nalu) == (nalu[1] \div 2) % 64

\* the last NALU of type typ in nalus, <<>> (nil) when there is none:
\* the loop of lines 928-941 for one of the three types
LastNALUOfType(nalus, typ) ==
    IF \E i \in 1..Len(nalus) : H265NALUType(nalus[i]) = typ
    THEN nalus[CHOOSE i \in 1..Len(nalus) :
                  /\ H265NALUType(nalus[i]) = typ
                  /\ \A j \in (i + 1)..Len(nalus) : H265NALUType(nalus[j]) # typ]
    ELSE <<>>

\* lines 919-950: [err, track] for a key frame's payload; the track is
\* NoTrack when VPS, SPS and PPS are not all there
trackFromH265KeyFrame(data) ==
    LET r == AVCCUnmarshal(data)
        h265VPS == LastNALUOfType(r.nalus, NALUType_VPS_NUT)
        h265SPS == LastNALUOfType(r.nalus, NALUType_SPS_NUT)
        h265PPS == LastNALUOfType(r.nalus, NALUType_PPS_NUT)
    IN IF r.err # NoErr THEN [err |-> r.err, track |-> NoTrack]
       ELSE IF h265VPS # <<>> /\ h265SPS # <<>> /\ h265PPS # <<>>
       THEN [err |-> NoErr,
             track |-> [nil |-> FALSE, codec |-> "H265", PayloadTyp |-> 96,
                        VPS |-> h265VPS, SPS |-> h265SPS, PPS |-> h265PPS]]
       ELSE [err |-> NoErr, track |-> NoTrack]

(***************************************************************************)
(* Conn.ReadTracks, readTracksFromMetadata, readTracksFromMessages         *)
(***************************************************************************)
errEmptyMetadata == "metadata is empty"

TrkIdle ==
    [pc |-> "idle", hasVideo |-> FALSE, hasAudio |-> FALSE,
     startTimeSet |-> FALSE, startTime |-> 0,
     videoTrack |-> NoTrack, audioTrack |-> NoTrack,
     ret |-> [videoTrack |-> NoTrack, audioTrack |-> NoTrack, err |-> NoErr]]

\* the state at the call of ReadTracks
TrkEntry == [TrkIdle EXCEPT !.pc = "skip"]

TrkFrame ==
    /\ op = "ReadTracks"
    /\ UNCHANGED <<op, srv, cli, h265, net>>

\* return (videoTrack, audioTrack, err)
TrkReturn(t, videoTrack, audioTrack, err) ==
    [t EXCEPT !.pc = "done",
              !.ret = [videoTrack |-> videoTrack, audioTrack |-> audioTrack,
                       err |-> err]]

\* lines 837-860: [err, has]
MetadataHasVideo(md) ==
    IF ~MapHas(md, "videocodecid") THEN [err |-> NoErr, has |-> FALSE]
    ELSE LET v == MapGetV(md, "videocodecid")
         IN IF v.t = "number" /\ v.n = 0 THEN [err |-> NoErr, has |-> FALSE]
            ELSE IF v.t = "number" /\ v.n = codecH264 THEN [err |-> NoErr, has |-> TRUE]
            ELSE IF v.t = "string" /\ v.s = <<"avc1">> THEN [err |-> NoErr, has |-> TRUE]
            ELSE [err |-> "unsupported video codec", has |-> FALSE]

\* lines 865-888: [err, has]
MetadataHasAudio(md) ==
    IF ~MapHas(md, "audiocodecid") THEN [err |-> NoErr, has |-> FALSE]
    ELSE LET v == MapGetV(md, "audiocodecid")
         IN IF v.t = "number" /\ v.n = 0 THEN [err |-> NoErr, has |-> FALSE]
            ELSE IF v.t = "number" /\ v.n = codecAAC THEN [err |-> NoErr, has |-> TRUE]
            ELSE IF v.t = "string" /\ v.s = <<"mp4a">> THEN [err |-> NoErr, has |-> TRUE]
            ELSE [err |-> "unsupported audio codec", has |-> FALSE]

\* readTracksFromMetadata up to its loop, lines 828-895: [err, hasVideo, hasAudio]
MetadataCheck(payload) ==
    IF Len(payload) # 1 \/ payload[1].t # "map"
    THEN [err |-> "invalid metadata", hasVideo |-> FALSE, hasAudio |-> FALSE]
    ELSE LET v == MetadataHasVideo(payload[1].m)
             a == MetadataHasAudio(payload[1].m)
         IN IF v.err # NoErr
            THEN [err |-> v.err, hasVideo |-> FALSE, hasAudio |-> FALSE]
            ELSE IF a.err # NoErr
            THEN [err |-> a.err, hasVideo |-> FALSE, hasAudio |-> FALSE]
            ELSE IF ~v.has /\ ~a.has
            THEN [err |-> errEmptyMetadata, hasVideo |-> FALSE, hasAudio |-> FALSE]
            ELSE [err |-> NoErr, hasVideo |-> v.has, hasAudio |-> a.has]

\* lines 969-972: return when every expected track is there, else read on
MetadataLoopEnd(t) ==
    IF (~t.hasVideo \/ ~t.videoTrack.nil) /\ (~t.hasAudio \/ ~t.audioTrack.nil)
    THEN TrkReturn(t, t.videoTrack, t.audioTrack, NoErr)
    ELSE t

\* readTracksFromMetadataStep that takes every configuration message
readTracksFromMetadataStep_Replace(t, msg) ==
    IF msg.typ = "Video"
    THEN IF ~t.hasVideo
         THEN TrkReturn(t, NoTrack, NoTrack, "unexpected video packet")
         ELSE IF msg.H264Type = AVC_SEQHDR
         THEN LET r == trackFromH264DecoderConfig(msg.Payload)
              IN IF r.err # NoErr THEN TrkReturn(t, NoTrack, NoTrack, r.err)
                 ELSE MetadataLoopEnd([t EXCEPT !.videoTrack = r.track])
         ELSE MetadataLoopEnd(t)
    ELSE IF msg.typ = "Audio"
    THEN IF ~t.hasAudio
         THEN TrkReturn(t, NoTrack, NoTrack, "unexpected audio packet")
         ELSE IF msg.AACType = AVC_SEQHDR
         THEN LET r == trackFromAACDecoderConfig(msg.Payload)
              IN IF r.err # NoErr THEN TrkReturn(t, NoTrack, NoTrack, r.err)
                 ELSE MetadataLoopEnd([t EXCEPT !.audioTrack = r.track])
         ELSE MetadataLoopEnd(t)
    ELSE MetadataLoopEnd(t)

\* one iteration of the loop of readTracksFromMetadata on the message read,
\* lines 906-972
readTracksFromMetadataStep(t, msg) ==
    IF msg.typ = "Video"
    THEN IF ~t.hasVideo
         THEN TrkReturn(t, NoTrack, NoTrack, "unexpected video packet")
         ELSE IF t.videoTrack.nil /\ msg.H264Type = AVC_SEQHDR
         THEN LET r == trackFromH264DecoderConfig(msg.Payload)
              IN IF r.err # NoErr THEN TrkReturn(t, NoTrack, NoTrack, r.err)
                 ELSE MetadataLoopEnd([t EXCEPT !.videoTrack = r.track])
         ELSE IF t.videoTrack.nil /\ msg.H264Type = 1 /\ msg.IsKeyFrame
         THEN LET r == trackFromH265KeyFrame(msg.Payload)
              IN IF r.err # NoErr THEN TrkReturn(t, NoTrack, NoTrack, r.err)
                 ELSE MetadataLoopEnd([t EXCEPT !.videoTrack = r.track])
         ELSE MetadataLoopEnd(t)
    ELSE IF msg.typ = "Audio"
    THEN IF ~t.hasAudio
         THEN TrkReturn(t, NoTrack, NoTrack, "unexpected audio packet")
         ELSE IF t.audioTrack.nil /\ msg.AACType = AVC_SEQHDR
         THEN LET r == trackFromAACDecoderConfig(msg.Payload)
              IN IF r.err # NoErr THEN TrkReturn(t, NoTrack, NoTrack, r.err)
                 ELSE MetadataLoopEnd([t EXCEPT !.audioTrack = r.track])
         ELSE MetadataLoopEnd(t)
    ELSE MetadataLoopEnd(t)

\* a *format.H264 as the format.Format that ReadTracks returns (lines 1096
\* and 1107): a nil pointer becomes an interface value that holds a nil
\* pointer and is not itself nil
AsFormat(track) == IF track.nil THEN NilH264 ELSE track

\* a return of readTracksFromMessages, handed on by ReadTracks
MessagesReturn(t, videoTrack, audioTrack, err) ==
    TrkReturn(t, AsFormat(videoTrack), audioTrack, err)

\* lines 1043-1047: the end of readTracksFromMessages after its loop
MessagesLoopEnd(t) ==
    IF t.videoTrack.nil /\ t.audioTrack.nil
    THEN MessagesReturn(t, NoTrack, NoTrack, "no tracks found")
    ELSE MessagesReturn(t, t.videoTrack, t.audioTrack, NoErr)

\* lines 986-989 and 1011-1014: startTime is set by the first audio or video
WithStartTime(t, msg) ==
    IF ~t.startTimeSet
    THEN [t EXCEPT !.startTimeSet = TRUE, !.startTime = msg.DTS]
    ELSE t

\* MessagesWindow that ends the scan at any audio or video message
MessagesWindow_NoWait(t, msg) == MessagesLoopEnd(t)

\* lines 1006-1008 and 1031-1033, then the read of line 1037
MessagesWindow(t, msg) ==
    IF msg.DTS - t.startTime >= OneSecond
    THEN MessagesLoopEnd(t)
    ELSE [t EXCEPT !.pc = "messages"]

\* one iteration of the loop of readTracksFromMessages on message msg,
\* lines 984-1034
readTracksFromMessagesStep(t, msg) ==
    IF msg.typ = "Video"
    THEN LET t1 == WithStartTime(t, msg)
         IN IF msg.H264Type = AVC_SEQHDR /\ t1.videoTrack.nil
            THEN LET r == trackFromH264DecoderConfig(msg.Payload)
                     t2 == [t1 EXCEPT !.videoTrack = r.track]
                 IN IF r.err # NoErr THEN MessagesReturn(t1, NoTrack, NoTrack, r.err)
                    ELSE IF ~t2.audioTrack.nil
                    THEN MessagesReturn(t2, t2.videoTrack, t2.audioTrack, NoErr)
                    ELSE MessagesWindow(t2, msg)
            ELSE MessagesWindow(t1, msg)
    ELSE IF msg.typ = "Audio"
    THEN LET t1 == WithStartTime(t, msg)
         IN IF msg.AACType = AVC_SEQHDR /\ t1.audioTrack.nil
            THEN LET r == trackFromAACDecoderConfig(msg.Payload)
                     t2 == [t1 EXCEPT !.audioTrack = r.track]
                 IN IF r.err # NoErr THEN MessagesReturn(t1, NoTrack, NoTrack, r.err)
                    ELSE IF ~t2.videoTrack.nil
                    THEN MessagesReturn(t2, t2.videoTrack, t2.audioTrack, NoErr)
                    ELSE MessagesWindow(t2, msg)
            ELSE MessagesWindow(t1, msg)
    ELSE [t EXCEPT !.pc = "messages"]

\* lines 1061-1070: the message is skipped by the first loop of ReadTracks
TrkSkips(msg) ==
    \/ IsCommand(msg) /\ msg.Name = "onStatus"
    \/ /\ msg.typ = "DataAMF0"
       /\ Len(msg.Payload) >= 1
       /\ msg.Payload[1] = S1("|RtmpSampleAccess")

\* lines 1080-1084: the payload without a leading "@setDataFrame"
StripSetDataFrame(payload) ==
    IF payload[1] = S1("@setDataFrame") THEN Tail(payload) ELSE payload

\* lines 1079-1087: msg is a data message that holds onMetaData
IsOnMetaData(msg) ==
    /\ msg.typ = "DataAMF0"
    /\ Len(msg.Payload) >= 1
    /\ Len(StripSetDataFrame(msg.Payload)) >= 1
    /\ StripSetDataFrame(msg.Payload)[1] = S1("onMetaData")

\* ReadTracksDispatch for which empty metadata is an error like the others
ReadTracksDispatch_NoFallback(t, msg) ==
    IF IsOnMetaData(msg)
    THEN LET c == MetadataCheck(Tail(StripSetDataFrame(msg.Payload)))
         IN IF c.err # NoErr THEN TrkReturn(t, NoTrack, NoTrack, c.err)
            ELSE [t EXCEPT !.pc = "metadata", !.hasVideo = c.hasVideo,
                           !.hasAudio = c.hasAudio]
    ELSE readTracksFromMessagesStep(t, msg)

\* lines 1079-1107: what ReadTracks does with the first message it did not skip
ReadTracksDispatch(t, msg) ==
    IF IsOnMetaData(msg)
    THEN LET c == MetadataCheck(Tail(StripSetDataFrame(msg.Payload)))
         IN IF c.err = errEmptyMetadata THEN [t EXCEPT !.pc = "fallback"]
            ELSE IF c.err # NoErr THEN TrkReturn(t, NoTrack, NoTrack, c.err)
            ELSE [t EXCEPT !.pc = "metadata", !.hasVideo = c.hasVideo,
                           !.hasAudio = c.hasAudio]
    ELSE readTracksFromMessagesStep(t, msg)

\* the metadata maps a peer may send
TrkMetadataMaps ==
    { AMFMap(<<KV("videocodecid", AMFNumber(codecH264)),
               KV("audiocodecid", AMFNumber(codecAAC))>>),
      AMFMap(<<KV("videocodecid", S1("avc1"))>>),
      AMFMap(<<KV("videocodecid", AMFNumber(0)),
               KV("audiocodecid", S1("mp4a"))>>),
      AMFMap(<<>>),
      AMFMap(<<KV("videocodecid", AMFNumber(0)),
               KV("audiocodecid", AMFNumber(0))>>),
      AMFMap(<<KV("videocodecid", AMFNumber(12))>>),
      AMFMap(<<KV("audiocodecid", S1("speex"))>>),
      AMFMap(<<KV("videocodecid", AMFBool(TRUE))>>) }

\* NALUs by their first byte: H265 VPS (64), SPS (66), PPS (68), an H265
\* slice (38) and an H264 SPS (103)
TrkVPS == <<64, 1>>

TrkSPS == <<66, 1>>

TrkPPS == <<68, 1>>

\* the audio, video and other messages a peer may send
TrkMediaMsgs ==
    { MsgVideo(AVC_SEQHDR, TRUE, PayloadAVCConf(<<103, 1>>, <<104, 1>>), 0),
      MsgVideo(AVC_SEQHDR, TRUE, PayloadAVCConf(<<103, 2>>, <<104, 2>>), 1),
      MsgVideo(AVC_SEQHDR, TRUE, PayloadJunk, 0),
      MsgVideo(1, TRUE, PayloadAVCC(<<TrkVPS, TrkSPS, <<68, 0>>, TrkPPS>>), 0),
      MsgVideo(1, TRUE, PayloadAVCC(<<<<103, 1>>, <<38, 1>>>>), 1),
      MsgVideo(1, TRUE, PayloadJunk, 0),
      MsgVideo(1, FALSE, PayloadAVCC(<<<<38, 2>>>>), 2),
      MsgAudio(AVC_SEQHDR, PayloadAACConf(1), 0),
      MsgAudio(AVC_SEQHDR, PayloadAACConf(2), 1),
      MsgAudio(AVC_SEQHDR, PayloadJunk, 0),
      MsgAudio(1, PayloadJunk, 1),
      MsgAudio(1, PayloadJunk, 3),
      MsgSetChunkSize(65536) }

\* the audio, video and other messages a peer may send to the scan of
\* readTracksFromMessages
TrkScanMsgs ==
    { MsgVideo(AVC_SEQHDR, TRUE, PayloadAVCConf(<<103, 1>>, <<104, 1>>), 0),
      MsgVideo(AVC_SEQHDR, TRUE, PayloadJunk, 0),
      MsgVideo(1, FALSE, PayloadAVCC(<<<<38, 2>>>>), 2),
      MsgAudio(AVC_SEQHDR, PayloadAACConf(1), 0),
      MsgAudio(AVC_SEQHDR, PayloadAACConf(2), 1),
      MsgAudio(1, PayloadJunk, 1),
      MsgAudio(1, PayloadJunk, 3),
      MsgSetChunkSize(65536) }

\* the messages a peer may send first
TrkFirstMsgs ==
    { MsgCommandAMF0(5, 16777216, "onStatus", 0, <<AMFNull>>),
      MsgDataAMF0(<<S1("|RtmpSampleAccess"), AMFBool(TRUE), AMFBool(TRUE)>>),
      MsgDataAMF0(<<>>),
      MsgDataAMF0(<<S1("@setDataFrame")>>),
      MsgDataAMF0(<<S1("onMetaData")>>),
      MsgDataAMF0(<<S1("onMetaData"), S1("x")>>),
      MsgDataAMF0(<<S1("onFI"), AMFMap(<<>>)>>) }
    \cup { MsgDataAMF0(<<S1("onMetaData"), md>>) : md \in TrkMetadataMaps }
    \cup { MsgDataAMF0(<<S1("@setDataFrame"), S1("onMetaData"), md>>) :
             md \in TrkMetadataMaps }
    \cup TrkScanMsgs

\* the c.ReadMessage of line 1055 and, for a message that is not skipped,
\* lines 1072-1107 up to the next read or the return
TrkReadFirst ==
    /\ TrkFrame
    /\ trk.pc = "skip"
    /\ CountOp(log, "read") < MaxTrkReads
    /\ \E e \in ChanOutcomes :
          IF e # NoErr
          THEN /\ log' = Append(log, ReadEntry(NoMsg, e))
               /\ trk' = TrkReturn(trk, NoTrack, NoTrack, e)
          ELSE \E m \in TrkFirstMsgs :
                 /\ log' = Append(log, ReadEntry(m, NoErr))
                 /\ trk' = IF TrkSkips(m) THEN trk
                           ELSE ReadTracksDispatch(trk, m)

\* the c.ReadMessage of line 901 and the iteration that follows
TrkReadMetadata ==
    /\ TrkFrame
    /\ trk.pc = "metadata"
    /\ CountOp(log, "read") < MaxTrkReads
    /\ \E e \in ChanOutcomes :
          IF e # NoErr
          THEN /\ log' = Append(log, ReadEntry(NoMsg, e))
               /\ trk' = TrkReturn(trk, NoTrack, NoTrack, e)
          ELSE \E m \in TrkMediaMsgs :
                 /\ log' = Append(log, ReadEntry(m, NoErr))
                 /\ trk' = readTracksFromMetadataStep(trk, m)

\* the c.ReadMessage of line 1091 and the call of line 1096
TrkReadFallback ==
    /\ TrkFrame
    /\ trk.pc = "fallback"
    /\ CountOp(log, "read") < MaxTrkReads
    /\ \E e \in ChanOutcomes :
          IF e # NoErr
          THEN /\ log' = Append(log, ReadEntry(NoMsg, e))
               /\ trk' = TrkReturn(trk, NoTrack, NoTrack, e)
          ELSE \E m \in TrkScanMsgs :
                 /\ log' = Append(log, ReadEntry(m, NoErr))
                 /\ trk' = readTracksFromMessagesStep(trk, m)

\* the c.ReadMessage of line 1037 and the iteration that follows
TrkReadMessages ==
    /\ TrkFrame
    /\ trk.pc = "messages"
    /\ CountOp(log, "read") < MaxTrkReads
    /\ \E e \in ChanOutcomes :
          IF e # NoErr
          THEN /\ log' = Append(log, ReadEntry(NoMsg, e))
               /\ trk' = MessagesReturn(trk, NoTrack, NoTrack, e)
          ELSE \E m \in TrkScanMsgs :
                 /\ log' = Append(log, ReadEntry(m, NoErr))
                 /\ trk' = readTracksFromMessagesStep(trk, m)

(***************************************************************************)
(* The H265 format processor: RTP packets and parameter-set extraction.    *)
(*                                                                         *)
(* A byte sequence is a sequence of numbers in 0..255; <<>> stands for a   *)
(* nil slice (the code never builds an empty slice that is not nil from    *)
(* the inputs of the model).                                               *)
(***************************************************************************)
NALUType_AggregationUnit == 48

\* the size of an RTP header without CSRC and extensions
RTPHeaderSize == 12

\* the ceiling on the marshaled size of an RTP packet, scaled down with
\* the payloads of the model
maxPacketSize == 28

NilBytes == <<>>

\* s[n:]
Skip(s, n) == SubSeq(s, n + 1, Len(s))

\* s[:n]
Take(s, n) == SubSeq(s, 1, n)

\* n bytes of value b
Bytes(n, b) == [i \in 1..n |-> b]

\* an rtp.Packet; id stands for the pointer
RtpPacket(id, paddingSize, payload) ==
    [id |-> id, PayloadType |-> 96, SSRC |-> 1000 + id,
     SequenceNumber |-> 2000 + id, Timestamp |-> 3000 + id,
     Padding |-> paddingSize > 0, PaddingSize |-> paddingSize,
     Payload |-> payload]

\* rtp.Packet.MarshalSize
MarshalSize(pkt) == RTPHeaderSize + Len(pkt.Payload) + pkt.PaddingSize

\* what rtpH265ExtractVPSSPSPPS returns; panic: it read outside the packet
NoParams == [vps |-> NilBytes, sps |-> NilBytes, pps |-> NilBytes, panic |-> FALSE]

\* line 56: the type the loop classifies a sub-unit by
SubUnitTyp(pkt, nalu) == H265NALUType(pkt.Payload)

\* lines 58-67
WithSubUnit(acc, typ, nalu) ==
    IF typ = NALUType_VPS_NUT THEN [acc EXCEPT !.vps = nalu]
    ELSE IF typ = NALUType_SPS_NUT THEN [acc EXCEPT !.sps = nalu]
    ELSE IF typ = NALUType_PPS_NUT THEN [acc EXCEPT !.pps = nalu]
    ELSE acc

\* SizeExceeds that lets every declared size through
SizeExceeds_Never(size, payload) == FALSE

\* line 49: the declared size exceeds the bytes that remain
SizeExceeds(size, payload) == size > Len(payload)

\* the loop of lines 37-68 on the bytes that remain, acc the sets found
RECURSIVE AggregationLoop(_, _, _)
AggregationLoop(pkt, payload, acc) ==
    IF Len(payload) = 0 \/ Len(payload) < 2 THEN acc
    ELSE LET size == payload[1] * 256 + payload[2]
             rest == Skip(payload, 2)
         IN IF size = 0 THEN acc
            ELSE IF SizeExceeds(size, rest) THEN NoParams
            ELSE IF size > Len(rest)
            THEN [acc EXCEPT !.panic = TRUE]
            ELSE AggregationLoop(pkt, Skip(rest, size),
                                 WithSubUnit(acc, SubUnitTyp(pkt, Take(rest, size)),
                                             Take(rest, size)))

\* rtpH265ExtractVPSSPSPPS, lines 14-75
rtpH265ExtractVPSSPSPPS(pkt) ==
    IF Len(pkt.Payload) < 2 THEN NoParams
    ELSE LET typ == H265NALUType(pkt.Payload)
         IN IF typ = NALUType_VPS_NUT THEN [NoParams EXCEPT !.vps = pkt.Payload]
            ELSE IF typ = NALUType_SPS_NUT THEN [NoParams EXCEPT !.sps = pkt.Payload]
            ELSE IF typ = NALUType_PPS_NUT THEN [NoParams EXCEPT !.pps = pkt.Payload]
            ELSE IF typ = NALUType_AggregationUnit
            THEN AggregationLoop(pkt, Skip(pkt.Payload, 2), NoParams)
            ELSE NoParams

\* the first packets of the batches: single parameter sets, aggregation
\* units (first byte 96) well formed, truncated, cut short and ended by a
\* zero size, a payload of one byte, and slices (first byte 38) above the
\* size ceiling, below it, and below it only without their padding
PktVPS == RtpPacket(1, 0, <<64, 1, 7>>)

PktVPS2 == RtpPacket(2, 0, <<64, 1, 8>>)

PktSPS == RtpPacket(3, 0, <<66, 1, 7>>)

PktPPS == RtpPacket(4, 0, <<68, 1, 7>>)

PktAggregation == RtpPacket(5, 0, <<96, 1, 0, 2, 64, 9, 0, 2, 66, 9, 0, 2, 68, 9>>)

PktTruncated == RtpPacket(6, 0, <<96, 1, 0, 2, 64, 9, 0, 9, 66, 9>>)

PktCutShort == RtpPacket(7, 0, <<96, 1, 0, 2, 64, 9, 0>>)

PktZeroSize == RtpPacket(8, 0, <<96, 1, 0, 0, 66, 9>>)

PktOneByte == RtpPacket(9, 0, <<64>>)

PktOversize == RtpPacket(10, 0, <<38, 1>> \o Bytes(15, 0))

PktSlice == RtpPacket(11, 0, <<38, 1, 0, 0>>)

PktPadded == RtpPacket(12, 4, <<38, 1>> \o Bytes(12, 0))

PktOversize2 == RtpPacket(13, 0, <<38, 1>> \o Bytes(16, 0))

Pkts ==
    { PktVPS, PktVPS2, PktSPS, PktPPS, PktAggregation, PktTruncated,
      PktCutShort, PktZeroSize, PktOneByte, PktOversize, PktSlice, PktPadded,
      PktOversize2 }

(***************************************************************************)
(* The H265 format processor: formatProcessorH265 and process.             *)
(*                                                                         *)
(* Every flow has its own format processor; all of them point to one       *)
(* format.H265 (the track).  The steps of a flow are the Safe accessors of *)
(* the track, each of which is atomic, and between them the computation   *)
(* that is local to the flow.  The decoder and the encoder are libraries:  *)
(* what DecodeUntilMarker and Encode return is chosen by the environment.  *)
(***************************************************************************)
Flows == {1, 2}

NoEncoder == [nil |-> TRUE]

\* a nil *uint32, *uint16
NilNumber == -1

\* forma.CreateEncoder(), line 108
CreatedEncoder(format) ==
    [nil |-> FALSE, PayloadType |-> format.PayloadTyp, SSRC |-> NilNumber,
     InitialSequenceNumber |-> NilNumber, InitialTimestamp |-> NilNumber,
     MaxDONDiff |-> format.MaxDONDiff]

\* lines 153-162
SeededEncoder(pkt, format) ==
    [nil |-> FALSE, PayloadType |-> pkt.PayloadType, SSRC |-> pkt.SSRC,
     InitialSequenceNumber |-> pkt.SequenceNumber,
     InitialTimestamp |-> pkt.Timestamp, MaxDONDiff |-> format.MaxDONDiff]

\* a dataH265 (ntp left out: process does not touch it)
DataH265(rtpPackets, nalus, pts) ==
    [rtpPackets |-> rtpPackets, nalus |-> nalus, pts |-> pts]

\* the track at the start
InitialFormat ==
    [PayloadTyp |-> 96, VPS |-> PktVPS.Payload, SPS |-> NilBytes,
     PPS |-> NilBytes, MaxDONDiff |-> 0]

\* the batches a flow that runs alone may be given: raw packets, or units
SingleBatches ==
    { DataH265(<<pkt>>, <<>>, 0) : pkt \in Pkts }
    \cup { DataH265(<<PktSlice, PktSPS>>, <<>>, 0),
           DataH265(<<PktOversize, PktVPS2>>, <<>>, 0),
           DataH265(<<>>, <<<<64, 1, 8>>, <<38, 1>>>>, 5) }

\* the batches flows that run side by side may be given
ConcurrentBatches ==
    { DataH265(<<pkt>>, <<>>, 0) : pkt \in {PktVPS, PktVPS2, PktSPS} }

\* errors of rtph265.Decoder.DecodeUntilMarker
ErrMorePacketsNeeded == "need more packets"

ErrNonStartingPacketAndNoPrevious ==
    "received a non-starting fragmentation unit without any previous fragmentation units"

\* the outcomes of DecodeUntilMarker: units and their pts, or an error
DecodeOutcomes ==
    { [err |-> NoErr, nalus |-> <<<<38, 1>>>>, pts |-> 7],
      [err |-> ErrMorePacketsNeeded, nalus |-> <<>>, pts |-> 0],
      [err |-> ErrNonStartingPacketAndNoPrevious, nalus |-> <<>>, pts |-> 0],
      [err |-> "invalid fragmentation unit", nalus |-> <<>>, pts |-> 0] }

\* the outcomes of rtph265.Encoder.Encode: packets, or an error
EncodeOutcomes ==
    { [err |-> NoErr, pkts |-> <<RtpPacket(20, 0, <<38, 1>>)>>],
      [err |-> "NALU is too big", pkts |-> <<>>] }

\* a format processor and the flow that uses it, between two calls
FlowIdle(encoder) ==
    [pc |-> "idle", calls |-> 0, encoder |-> encoder, decoder |-> FALSE,
     hasNonRTSPReaders |-> FALSE,
     given |-> DataH265(<<>>, <<>>, 0), tdata |-> DataH265(<<>>, <<>>, 0),
     ext |-> NoParams, field |-> "VPS",
     encoder0 |-> encoder, decoder0 |-> FALSE, format0 |-> InitialFormat,
     prev |-> 0,
     stores |-> <<>>, decodeErr |-> "none", encodes |-> <<>>, err |-> NoErr]

\* newFormatProcessorH265(forma, allocateEncoder), lines 99-112
newFormatProcessorH265(forma, allocateEncoder) ==
    FlowIdle(IF allocateEncoder THEN CreatedEncoder(forma) ELSE NoEncoder)

\* no format processor in use
H265Idle ==
    [format |-> InitialFormat, flows |-> {},
     p |-> [f \in Flows |-> FlowIdle(NoEncoder)]]

H265Frame ==
    /\ op = "process"
    /\ UNCHANGED <<op, log, srv, cli, trk, net>>

\* the flows run side by side
Concurrent == Cardinality(h265.flows) > 1

\* return err
ProcReturn(fl, err) == [fl EXCEPT !.pc = "done", !.err = err]

\* the value rtpH265ExtractVPSSPSPPS returned for a field of the track
ExtField(ext, field) ==
    CASE field = "VPS" -> ext.vps
      [] field = "SPS" -> ext.sps
      [] field = "PPS" -> ext.pps

\* SafeVPS(), SafeSPS(), SafePPS()
SafeGet(format, field) ==
    CASE field = "VPS" -> format.VPS
      [] field = "SPS" -> format.SPS
      [] field = "PPS" -> format.PPS

\* SafeSetVPS(v), SafeSetSPS(v), SafeSetPPS(v)
SafeSet(format, field, v) ==
    CASE field = "VPS" -> [format EXCEPT !.VPS = v]
      [] field = "SPS" -> [format EXCEPT !.SPS = v]
      [] field = "PPS" -> [format EXCEPT !.PPS = v]

\* NeedsStore that stores whatever was extracted
NeedsStore_NotNil(new, stored) == new # NilBytes

\* the conditions of lines 117, 121 and 125
NeedsStore(new, stored) == new # NilBytes /\ new # stored

\* the flow after it is done with a field: the next field, or line 146
AfterField(fl) ==
    CASE fl.field = "VPS" -> [fl EXCEPT !.pc = "get", !.field = "SPS"]
      [] fl.field = "SPS" -> [fl EXCEPT !.pc = "get", !.field = "PPS"]
      [] fl.field = "PPS" -> [fl EXCEPT !.pc = "size"]

\* StripPadding that leaves the padding on
StripPadding_Keep(pkt) == pkt

\* lines 148-149
StripPadding(pkt) == [pkt EXCEPT !.Padding = FALSE, !.PaddingSize = 0]

\* SizeCheckStep without the test of line 146: every oversize packet seeds
\* a new encoder
SizeCheckStep_Reseed(fl, format) ==
    LET pkt == StripPadding(fl.tdata.rtpPackets[1])
        fl1 == [fl EXCEPT !.pc = "decode", !.tdata.rtpPackets[1] = pkt]
    IN IF MarshalSize(pkt) > maxPacketSize
       THEN [fl1 EXCEPT !.encoder = SeededEncoder(pkt, format)]
       ELSE fl1

\* lines 146-165
SizeCheckStep(fl, format) ==
    IF ~fl.encoder.nil THEN [fl EXCEPT !.pc = "decode"]
    ELSE LET pkt == StripPadding(fl.tdata.rtpPackets[1])
             fl1 == [fl EXCEPT !.pc = "decode", !.tdata.rtpPackets[1] = pkt]
         IN IF MarshalSize(pkt) > maxPacketSize
            THEN [fl1 EXCEPT !.encoder = SeededEncoder(pkt, format)]
            ELSE fl1

\* MustDecode that decodes every batch of packets
MustDecode_Always(hasNonRTSPReaders, encoder) == TRUE

\* line 168
MustDecode(hasNonRTSPReaders, encoder) == hasNonRTSPReaders \/ ~encoder.nil

\* Tolerated without ErrMorePacketsNeeded
Tolerated_OnlyNonStarting(err) == err = ErrNonStartingPacketAndNoPrevious

\* line 180
Tolerated(err) ==
    err = ErrNonStartingPacketAndNoPrevious \/ err = ErrMorePacketsNeeded

\* DecodeStep without line 174: the packets of the batch stay in place
DecodeStep_KeepPackets(fl, out) ==
    IF MustDecode(fl.hasNonRTSPReaders, fl.encoder)
    THEN LET fl1 == [fl EXCEPT !.decoder = TRUE, !.decodeErr = out.err]
             fl2 == [fl1 EXCEPT !.tdata.nalus = out.nalus, !.tdata.pts = out.pts]
         IN IF out.err # NoErr
            THEN IF Tolerated(out.err) THEN ProcReturn(fl1, NoErr)
                 ELSE ProcReturn(fl1, out.err)
            ELSE IF fl2.encoder.nil THEN ProcReturn(fl2, NoErr)
            ELSE [fl2 EXCEPT !.pc = "encode"]
    ELSE IF fl.encoder.nil THEN ProcReturn(fl, NoErr)
    ELSE [fl EXCEPT !.pc = "encode"]

\* lines 168-195, out what DecodeUntilMarker returns when it is called
DecodeStep(fl, out) ==
    IF MustDecode(fl.hasNonRTSPReaders, fl.encoder)
    THEN LET fl1 == [fl EXCEPT !.decoder = TRUE,
                               !.tdata.rtpPackets =
                                   IF ~fl.encoder.nil THEN <<>> ELSE @,
                               !.decodeErr = out.err]
             fl2 == [fl1 EXCEPT !.tdata.nalus = out.nalus, !.tdata.pts = out.pts]
         IN IF out.err # NoErr
            THEN IF Tolerated(out.err) THEN ProcReturn(fl1, NoErr)
                 ELSE ProcReturn(fl1, out.err)
            ELSE IF fl2.encoder.nil THEN ProcReturn(fl2, NoErr)
            ELSE [fl2 EXCEPT !.pc = "encode"]
    ELSE IF fl.encoder.nil THEN ProcReturn(fl, NoErr)
    ELSE [fl EXCEPT !.pc = "encode"]

\* lines 201-207, out what Encode returns; Encode on a nil encoder
\* dereferences a nil pointer and the flow panics
EncodeStep(fl, out) ==
    IF fl.encoder.nil
    THEN [fl EXCEPT !.pc = "panic",
                    !.encodes = Append(@, [present |-> FALSE,
                                           nalus |-> fl.tdata.nalus,
                                           pkts |-> <<>>])]
    ELSE LET fl1 == [fl EXCEPT !.encodes =
                         Append(@, [present |-> TRUE, nalus |-> fl.tdata.nalus,
                                    pkts |-> out.pkts])]
         IN IF out.err # NoErr THEN ProcReturn(fl1, out.err)
            ELSE ProcReturn([fl1 EXCEPT !.tdata.rtpPackets = out.pkts], NoErr)

\* the call process(dat, hasNonRTSPReaders): lines 140-144 and 115, or for
\* a batch without packets lines 197-198; the state at the call is kept
\* (encoder0, decoder0, format0, prev: the packet of the call before)
BeginStep(fl, format, dat, hasNonRTSPReaders) ==
    LET fl1 == [fl EXCEPT !.calls = @ + 1,
                          !.hasNonRTSPReaders = hasNonRTSPReaders,
                          !.given = dat, !.tdata = dat,
                          !.ext = NoParams, !.field = "VPS",
                          !.encoder0 = fl.encoder, !.decoder0 = fl.decoder,
                          !.format0 = format,
                          !.prev = IF fl.given.rtpPackets # <<>>
                                   THEN fl.given.rtpPackets[1].id ELSE 0,
                          !.stores = <<>>, !.decodeErr = "none",
                          !.encodes = <<>>, !.err = NoErr]
        ext == rtpH265ExtractVPSSPSPPS(dat.rtpPackets[1])
    IN IF dat.rtpPackets = <<>> THEN [fl1 EXCEPT !.pc = "encode"]
       ELSE IF ext.panic THEN [fl1 EXCEPT !.pc = "panic", !.ext = ext]
       ELSE [fl1 EXCEPT !.pc = "get", !.ext = ext]

\* a flow calls process on its format processor
ProcBegin ==
    /\ H265Frame
    /\ \E f \in h265.flows :
          /\ h265.p[f].pc \in {"idle", "done"}
          /\ h265.p[f].calls < (IF Concurrent THEN 1 ELSE MaxCalls)
          /\ \E dat \in (IF Concurrent THEN ConcurrentBatches ELSE SingleBatches),
                hasNonRTSPReaders \in (IF Concurrent THEN {FALSE} ELSE BOOLEAN) :
                h265' = [h265 EXCEPT
                            !.p[f] = BeginStep(@, h265.format, dat,
                                               hasNonRTSPReaders)]

\* the Safe getter and the comparison of line 117, 121 or 125
ProcGet ==
    /\ H265Frame
    /\ \E f \in h265.flows :
          LET fl == h265.p[f]
          IN /\ fl.pc = "get"
             /\ h265' = [h265 EXCEPT !.p[f] =
                   IF NeedsStore(ExtField(fl.ext, fl.field),
                                 SafeGet(h265.format, fl.field))
                   THEN [fl EXCEPT !.pc = "set"]
                   ELSE AfterField(fl)]

\* the Safe setter of line 118, 122 or 126
ProcSet ==
    /\ H265Frame
    /\ \E f \in h265.flows :
          LET fl == h265.p[f]
              new == ExtField(fl.ext, fl.field)
          IN /\ fl.pc = "set"
             /\ h265' = [h265 EXCEPT
                   !.format = SafeSet(@, fl.field, new),
                   !.p[f] = AfterField(
                       [fl EXCEPT !.stores = Append(@,
                           [field |-> fl.field,
                            old |-> SafeGet(h265.format, fl.field),
                            new |-> new])])]

\* lines 146-165
ProcSizeCheck ==
    /\ H265Frame
    /\ \E f \in h265.flows :
          /\ h265.p[f].pc = "size"
          /\ h265' = [h265 EXCEPT !.p[f] = SizeCheckStep(@, h265.format)]

\* lines 168-195
ProcDecode ==
    /\ H265Frame
    /\ \E f \in h265.flows :
          /\ h265.p[f].pc = "decode"
          /\ \E out \in DecodeOutcomes :
                h265' = [h265 EXCEPT !.p[f] = DecodeStep(@, out)]

\* lines 201-207
ProcEncode ==
    /\ H265Frame
    /\ \E f \in h265.flows :
          /\ h265.p[f].pc = "encode"
          /\ \E out \in EncodeOutcomes :
                h265' = [h265 EXCEPT !.p[f] = EncodeStep(@, out)]

\* one flow with a format processor built with or without an encoder, or
\* two flows with a format processor each, on the same track
InitH265 ==
    /\ op = "process"
    /\ log = <<>>
    /\ srv = SrvIdle
    /\ cli = CliIdle
    /\ trk = TrkIdle
    /\ net = NetIdle
    /\ \/ \E allocateEncoder \in BOOLEAN :
             h265 = [format |-> InitialFormat, flows |-> {1},
                     p |-> [f \in Flows |->
                              IF f = 1
                              THEN newFormatProcessorH265(InitialFormat, allocateEncoder)
                              ELSE FlowIdle(NoEncoder)]]
       \/ h265 = [format |-> InitialFormat, flows |-> Flows,
                  p |-> [f \in Flows |->
                           newFormatProcessorH265(InitialFormat, FALSE)]]

NextH265 ==
    \/ ProcBegin
    \/ ProcGet
    \/ ProcSet
    \/ ProcSizeCheck
    \/ ProcDecode
    \/ ProcEncode

SpecH265 == InitH265 /\ [][NextH265]_vars

(***************************************************************************)
(* InitializeClient and InitializeServer on the two ends of one            *)
(* connection.  Each direction is a queue: what one end writes the other   *)
(* reads, in order, nothing lost; a read waits for a message, a write does *)
(* not wait.  The bytes of the handshake are not modelled.                 *)
(***************************************************************************)
\* the URLs the client is called with: the request URI has two segments
\* (one name, nothing, one name with a query), three, or more, the query
\* with or without slashes
PairURLs ==
    { URLParse(raw).u :
        raw \in { <<"rtmp:", "//", "h">>,
                  <<"rtmp:", "//", "h", "/", "a">>,
                  <<"rtmp:", "//", "h", "/", "a", "?", "q">>,
                  <<"rtmp:", "//", "h", "/", "a", "/">>,
                  <<"rtmp:", "//", "h", "/", "a", "/", "s">>,
                  <<"rtmp:", "//", "h", "/", "a", "/", "s", "?", "q", "/", "r">>,
                  <<"rtmp:", "//", "h", "/", "a", "/", "b", "/", "s", "?", "q">>,
                  <<"rtmp:", "//", "h", "/", "a", "/", "b", "/", "c", "/", "s">> } }

PairFrame ==
    /\ op = "Pair"
    /\ UNCHANGED <<op, log, trk, h265>>

\* the call InitializeClient(u, isPublishing), line 377
PairCliCall ==
    /\ PairFrame
    /\ cli.pc = "idle"
    /\ cli' = CliEntry(cli.u, cli.isPublishing)
    /\ UNCHANGED <<srv, net>>

\* handshake.DoClient(c.bc, false), lines 379-384
PairCliHandshake ==
    /\ PairFrame
    /\ cli.pc = "handshake"
    /\ cli' = [cli EXCEPT !.pc = "run"]
    /\ UNCHANGED <<srv, net>>

\* one c.mrw.Write of InitializeClient
PairCliWrite ==
    /\ PairFrame
    /\ cli.pc = "run"
    /\ CliStep.k = "write"
    /\ net' = [net EXCEPT !.c2s = Append(@, CliStep.msg)]
    /\ cli' = CliAdvance(cli)
    /\ UNCHANGED srv

\* one iteration of the loop of c.readCommandResult, lines 357-372
PairCliRead ==
    /\ PairFrame
    /\ cli.pc = "run"
    /\ CliStep.k = "await"
    /\ net.s2c # <<>>
    /\ LET r == readCommandResult(CliStep.id, CliStep.name, CliStep.f, Head(net.s2c))
       IN cli' = IF r = "continue" THEN cli
                 ELSE IF r # NoErr THEN CliReturn(cli, r)
                 ELSE CliAdvance(cli)
    /\ net' = [net EXCEPT !.s2c = Tail(@)]
    /\ UNCHANGED srv

\* handshake.DoServer(c.bc, false), lines 539-542
PairSrvHandshake ==
    /\ PairFrame
    /\ srv.pc = "handshake"
    /\ srv' = [srv EXCEPT !.pc = "readConnect"]
    /\ UNCHANGED <<cli, net>>

\* c.readCommand() at line 546 and the checks of lines 551-575
PairSrvReadConnect ==
    /\ PairFrame
    /\ srv.pc = "readConnect"
    /\ net.c2s # <<>>
    /\ LET m == Head(net.c2s)
       IN srv' =
            IF ~IsCommand(m) THEN srv
            ELSE IF ConnectCheck(m) # NoErr
                 THEN SrvReturn([srv EXCEPT !.cmd = m], NoURL, FALSE, ConnectCheck(m))
            ELSE [srv EXCEPT
                    !.pc = "connectReply", !.i = 1, !.cmd = m,
                    !.connectpath = MapGetString(m.Arguments[1].m, "app"),
                    !.tcURL = ConnectTcURL(m),
                    !.oe = MapGetFloat64(m.Arguments[1].m, "objectEncoding")]
    /\ net' = [net EXCEPT !.c2s = Tail(@)]
    /\ UNCHANGED cli

\* one c.mrw.Write of lines 577-620
PairSrvWriteConnectReply ==
    /\ PairFrame
    /\ srv.pc = "connectReply"
    /\ net' = [net EXCEPT !.s2c = Append(@, ConnectReplies(srv.cmd, srv.oe)[srv.i])]
    /\ srv' = IF srv.i < Len(ConnectReplies(srv.cmd, srv.oe))
              THEN [srv EXCEPT !.i = srv.i + 1]
              ELSE [srv EXCEPT !.pc = "loop", !.i = 1]
    /\ UNCHANGED cli

\* c.readCommand() at line 623 and the switch on the command's name
PairSrvReadLoop ==
    /\ PairFrame
    /\ srv.pc = "loop"
    /\ net.c2s # <<>>
    /\ srv' = IF IsCommand(Head(net.c2s)) THEN SrvDispatch(srv, Head(net.c2s))
              ELSE srv
    /\ net' = [net EXCEPT !.c2s = Tail(@)]
    /\ UNCHANGED cli

\* the c.mrw.Write of lines 630-641
PairSrvWriteCreateStreamResult ==
    /\ PairFrame
    /\ srv.pc = "createStreamResult"
    /\ net' = [net EXCEPT !.s2c = Append(@, CreateStreamResult(srv.cmd))]
    /\ srv' = [srv EXCEPT !.pc = "loop"]
    /\ UNCHANGED cli

\* one c.mrw.Write of lines 658-742, and the return of line 744
PairSrvWritePlay ==
    /\ PairFrame
    /\ srv.pc = "play"
    /\ net' = [net EXCEPT !.s2c = Append(@, PlayReplies(srv.cmd)[srv.i])]
    /\ srv' = IF srv.i < Len(PlayReplies(srv.cmd))
              THEN [srv EXCEPT !.i = srv.i + 1]
              ELSE SrvReturn(srv, srv.u, FALSE, NoErr)
    /\ UNCHANGED cli

\* the c.mrw.Write of lines 761-777, and the return of line 779
PairSrvWritePublish ==
    /\ PairFrame
    /\ srv.pc = "publish"
    /\ net' = [net EXCEPT !.s2c = Append(@, PublishReplies(srv.cmd)[srv.i])]
    /\ srv' = IF srv.i < Len(PublishReplies(srv.cmd))
              THEN [srv EXCEPT !.i = srv.i + 1]
              ELSE SrvReturn(srv, srv.u, TRUE, NoErr)
    /\ UNCHANGED cli

\* a client about to call InitializeClient(u, isPublishing) and a server
\* about to call InitializeServer
InitPair ==
    /\ op = "Pair"
    /\ log = <<>>
    /\ srv = SrvIdle
    /\ \E u \in PairURLs, isPublishing \in BOOLEAN :
          cli = [CliIdle EXCEPT !.u = u, !.isPublishing = isPublishing]
    /\ trk = TrkIdle
    /\ h265 = H265Idle
    /\ net = NetIdle

\* the steps of the client's goroutine
PairClient ==
    \/ PairCliCall
    \/ PairCliHandshake
    \/ PairCliWrite
    \/ PairCliRead

\* the steps of the server's goroutine
PairServer ==
    \/ PairSrvHandshake
    \/ PairSrvReadConnect
    \/ PairSrvWriteConnectReply
    \/ PairSrvReadLoop
    \/ PairSrvWriteCreateStreamResult
    \/ PairSrvWritePlay
    \/ PairSrvWritePublish

NextPair ==
    \/ PairCliCall
    \/ PairCliHandshake
    \/ PairCliWrite
    \/ PairCliRead
    \/ PairSrvHandshake
    \/ PairSrvReadConnect
    \/ PairSrvWriteConnectReply
    \/ PairSrvReadLoop
    \/ PairSrvWriteCreateStreamResult
    \/ PairSrvWritePlay
    \/ PairSrvWritePublish

SpecPair == InitPair /\ [][NextPair]_vars

\* each end runs in a goroutine of its own, which goes on whenever it is not
\* waiting for a message
FairSpecPair == SpecPair /\ WF_vars(PairClient) /\ WF_vars(PairServer)

Init ==
    /\ op \in {"InitializeServer", "InitializeClient", "ReadTracks"}
    /\ log = <<>>
    /\ srv = SrvIdle
    /\ IF op = "InitializeClient"
       THEN \E u \in CliURLs, isPublishing \in BOOLEAN :
               cli = CliEntry(u, isPublishing)
       ELSE cli = CliIdle
    /\ trk = IF op = "ReadTracks" THEN TrkEntry ELSE TrkIdle
    /\ h265 = H265Idle
    /\ net = NetIdle

Next ==
    \/ SrvHandshake
    \/ SrvReadConnect
    \/ SrvWriteConnectReply
    \/ SrvReadLoop
    \/ SrvWriteCreateStreamResult
    \/ SrvWritePlay
    \/ SrvWritePublish
    \/ CliHandshake
    \/ CliWrite
    \/ CliReadCommandResult
    \/ TrkReadFirst
    \/ TrkReadMetadata
    \/ TrkReadFallback
    \/ TrkReadMessages

Spec == Init /\ [][Next]_vars

(***************************************************************************)
(* Vocabulary of the properties below.                                     *)
(***************************************************************************)
IsPrefix(a, b) == Len(a) <= Len(b) /\ a = SubSeq(b, 1, Len(a))

\* no channel operation has failed
NoChanError == \A k \in 1..Len(log) : log[k].err = NoErr

\* index of the last read of the log, 0 when there is none
LastReadIdx ==
    IF \E k \in 1..Len(log) : log[k].op = "read"
    THEN CHOOSE k \in 1..Len(log) :
            log[k].op = "read" /\ \A j \in (k + 1)..Len(log) : log[j].op # "read"
    ELSE 0

\* index of the first read that delivered a command, 0 when there is none
FirstCmdIdx ==
    IF \E k \in 1..Len(log) : log[k].op = "read" /\ IsCommand(log[k].msg)
    THEN CHOOSE k \in 1..Len(log) :
            /\ log[k].op = "read" /\ IsCommand(log[k].msg)
            /\ \A j \in 1..(k - 1) : ~(log[j].op = "read" /\ IsCommand(log[j].msg))
    ELSE 0

\* the channel operations after the last read
AfterLastRead == SubSeq(log, LastReadIdx + 1, Len(log))

\* what a message of the server is: the code of an onStatus notification
\* (null first argument, level "status"), else the name of the command or
\* the type of the message
MsgLabel(m) ==
    IF ~IsCommand(m) THEN m.typ
    ELSE IF /\ m.Name = "onStatus"
            /\ Len(m.Arguments) = 2
            /\ m.Arguments[1] = AMFNull
            /\ m.Arguments[2].t = "map"
            /\ MapHas(m.Arguments[2].m, "level")
            /\ MapGetV(m.Arguments[2].m, "level") = S1("status")
            /\ MapHas(m.Arguments[2].m, "code")
         THEN MapGetV(m.Arguments[2].m, "code").s[1]
    ELSE m.Name

\* the labels of the writes (attempted or done) after the last read
LabelsAfterLastRead ==
    [j \in 1..Len(AfterLastRead) |-> MsgLabel(AfterLastRead[j].msg)]

\* log[k] is a read of InitializeServer's command loop that delivered a
\* command: the reply to connect was written before it
SrvLoopRead(k) ==
    /\ op = "InitializeServer"
    /\ k \in 1..Len(log)
    /\ log[k].op = "read" /\ log[k].err = NoErr /\ IsCommand(log[k].msg)
    /\ \E j \in 1..(k - 1) :
          /\ log[j].op = "write" /\ log[j].err = NoErr
          /\ IsCommand(log[j].msg) /\ log[j].msg.Name = "_result"

\* the last read is a read of the command loop that delivered command `name`
SrvLastCmdIs(name) == SrvLoopRead(LastReadIdx) /\ log[LastReadIdx].msg.Name = name

\* the command has a second argument and it is a string
HasStringPath(cmd) == Len(cmd.Arguments) >= 2 /\ cmd.Arguments[2].t = "string"

\* the target of play/publish command cmd resolves
SrvResolves(cmd) ==
    createURL(srv.tcURL, srv.connectpath, cmd.Arguments[2].s).err = NoErr

(***************************************************************************)
(* C1: after a play command with a string stream path (whose target        *)
(* resolves), InitializeServer writes stream-is-recorded, stream-begin,    *)
(* onStatus Play.Reset, Play.Start, Data.Start, Play.PublishNotify, in     *)
(* this order and nothing else, and returns the resolved target with       *)
(* isPublishing = false.  At every moment the writes after the play        *)
(* command are a prefix of the six; unless the channel fails, the call     *)
(* returns without error, and when it returns without error all six are    *)
(* written.                                                                *)
(***************************************************************************)
C1_PlaySequence ==
    << "UserControlStreamIsRecorded", "UserControlStreamBegin",
       "NetStream.Play.Reset", "NetStream.Play.Start",
       "NetStream.Data.Start", "NetStream.Play.PublishNotify" >>

C1_PlayReplies ==
    (SrvLastCmdIs("play") /\ HasStringPath(log[LastReadIdx].msg)
        /\ SrvResolves(log[LastReadIdx].msg)) =>
       LET cmd == log[LastReadIdx].msg
       IN /\ IsPrefix(LabelsAfterLastRead, C1_PlaySequence)
          /\ \A j \in 1..Len(AfterLastRead) : AfterLastRead[j].op = "write"
          /\ (srv.pc = "done" /\ NoChanError) => srv.ret.err = NoErr
          /\ srv.pc # "done" => Len(AfterLastRead) < Len(C1_PlaySequence)
          /\ (srv.pc = "done" /\ srv.ret.err = NoErr) =>
                /\ LabelsAfterLastRead = C1_PlaySequence
                /\ srv.ret.isPublishing = FALSE
                /\ srv.ret.u =
                     createURL(srv.tcURL, srv.connectpath, cmd.Arguments[2].s).u
                /\ ~srv.ret.u.nil

C1_Witness ==
    /\ SrvLastCmdIs("play")
    /\ srv.pc = "done" /\ srv.ret.err = NoErr
    /\ Len(AfterLastRead) = 6

(***************************************************************************)
(* C2: when the first command read is not named connect, or has no first   *)
(* argument that is a map, or the map lacks app, or lacks both tcUrl and   *)
(* tcurl, InitializeServer returns an error and has written nothing; any   *)
(* write happens after a first command that passed all these checks.       *)
(***************************************************************************)
C2_Rejected(cmd) ==
    \/ cmd.Name # "connect"
    \/ Len(cmd.Arguments) < 1
    \/ cmd.Arguments[1].t # "map"
    \/ ~MapHas(cmd.Arguments[1].m, "app")
    \/ ~MapHas(cmd.Arguments[1].m, "tcUrl") /\ ~MapHas(cmd.Arguments[1].m, "tcurl")

C2_ConnectChecked ==
    op = "InitializeServer" =>
       /\ (FirstCmdIdx > 0 /\ C2_Rejected(log[FirstCmdIdx].msg)) =>
             /\ srv.pc = "done"
             /\ srv.ret.err \notin ChanOutcomes
             /\ srv.ret.u.nil
             /\ Len(log) = FirstCmdIdx
             /\ \A j \in 1..Len(log) : log[j].op = "read"
       /\ \A j \in 1..Len(log) :
             log[j].op = "write" =>
                /\ FirstCmdIdx \in 1..(j - 1)
                /\ ~C2_Rejected(log[FirstCmdIdx].msg)

C2_Witness ==
    /\ op = "InitializeServer"
    /\ FirstCmdIdx > 1
    /\ log[FirstCmdIdx].msg.Name = "connect"
    /\ Len(log[FirstCmdIdx].msg.Arguments) = 1
    /\ log[FirstCmdIdx].msg.Arguments[1].t = "map"
    /\ MapHas(log[FirstCmdIdx].msg.Arguments[1].m, "app")
    /\ ~MapHas(log[FirstCmdIdx].msg.Arguments[1].m, "tcUrl")
    /\ ~MapHas(log[FirstCmdIdx].msg.Arguments[1].m, "tcurl")
    /\ srv.pc = "done"

(***************************************************************************)
(* C3: every createStream command read in the command loop is answered by  *)
(* the next channel operation, a write of a _result command with the       *)
(* request's command id and chunk-stream id and the number 1; the          *)
(* operation after that is the next read of the loop: no second reply, no  *)
(* return.                                                                 *)
(***************************************************************************)
C3_CreateStreamAnswered ==
    \A k \in 1..Len(log) :
       (SrvLoopRead(k) /\ log[k].msg.Name = "createStream") =>
          /\ k = Len(log) => srv.pc = "createStreamResult"
          /\ k < Len(log) =>
                /\ log[k + 1].op = "write"
                /\ IsCommand(log[k + 1].msg)
                /\ log[k + 1].msg.Name = "_result"
                /\ log[k + 1].msg.CommandID = log[k].msg.CommandID
                /\ log[k + 1].msg.ChunkStreamID = log[k].msg.ChunkStreamID
                /\ log[k + 1].msg.Arguments = << AMFNull, AMFNumber(1) >>
          /\ (k + 1 = Len(log) /\ log[k + 1].err = NoErr) => srv.pc = "loop"
          /\ k + 1 < Len(log) => log[k + 1].err = NoErr /\ log[k + 2].op = "read"

C3_Witness ==
    \E k \in 1..Len(log) :
       /\ SrvLoopRead(k) /\ log[k].msg.Name = "createStream"
       /\ log[k].msg.ChunkStreamID = 8
       /\ k + 2 <= Len(log) /\ SrvLoopRead(k + 2)
       /\ log[k + 2].msg.Name = "createStream"

(***************************************************************************)
(* C4: after a publish command with a string stream path (whose target     *)
(* resolves) InitializeServer writes exactly one message, an onStatus      *)
(* with code NetStream.Publish.Start and level "status", and returns the   *)
(* resolved target with isPublishing = true; a successful return has       *)
(* isPublishing = true exactly when the last command was publish; a play   *)
(* or publish command with fewer than two arguments or a second argument   *)
(* that is no string gives an error and no write.                          *)
(***************************************************************************)
C4_PublishReplies ==
    /\ (SrvLastCmdIs("publish") /\ HasStringPath(log[LastReadIdx].msg)
          /\ SrvResolves(log[LastReadIdx].msg)) =>
         LET cmd == log[LastReadIdx].msg
         IN /\ IsPrefix(LabelsAfterLastRead, << "NetStream.Publish.Start" >>)
            /\ \A j \in 1..Len(AfterLastRead) : AfterLastRead[j].op = "write"
            /\ (srv.pc = "done" /\ NoChanError) => srv.ret.err = NoErr
            /\ srv.pc # "done" => Len(AfterLastRead) = 0
            /\ (srv.pc = "done" /\ srv.ret.err = NoErr) =>
                  /\ LabelsAfterLastRead = << "NetStream.Publish.Start" >>
                  /\ srv.ret.isPublishing = TRUE
                  /\ srv.ret.u =
                       createURL(srv.tcURL, srv.connectpath, cmd.Arguments[2].s).u
                  /\ ~srv.ret.u.nil
    /\ (op = "InitializeServer" /\ srv.pc = "done" /\ srv.ret.err = NoErr) =>
         /\ SrvLastCmdIs("play") \/ SrvLastCmdIs("publish")
         /\ srv.ret.isPublishing <=> SrvLastCmdIs("publish")
    /\ ((SrvLastCmdIs("play") \/ SrvLastCmdIs("publish"))
          /\ ~HasStringPath(log[LastReadIdx].msg)) =>
         /\ srv.pc = "done"
         /\ srv.ret.err \notin ChanOutcomes
         /\ srv.ret.u.nil
         /\ Len(AfterLastRead) = 0

C4_Witness ==
    /\ SrvLastCmdIs("publish")
    /\ srv.pc = "done" /\ srv.ret.err = NoErr /\ srv.ret.isPublishing
    /\ Len(AfterLastRead) = 1

(***************************************************************************)
(* Vocabulary of the properties of InitializeClient.                       *)
(***************************************************************************)
IsWriteEntry(e) == e.op = "write"

\* what a message of the client is: name and id of a command, else the type
CliLabel(m) == IF IsCommand(m) THEN << m.Name, m.CommandID >> ELSE << m.typ, 0 >>

\* the labels of the writes (attempted or done) of the log, in order
WriteLabels ==
    LET w == SelectSeq(log, IsWriteEntry)
    IN [j \in 1..Len(w) |-> CliLabel(w[j].msg)]

\* entry e is a write (attempted or done) of the message labelled l
IsWriteOf(e, l) == e.op = "write" /\ CliLabel(e.msg) = l

\* entry e is a read of command (id, name) whose second argument is a map
\* with level "status"
IsStatusRead(e, id, name) ==
    /\ e.op = "read" /\ e.err = NoErr /\ IsCommand(e.msg)
    /\ e.msg.CommandID = id /\ e.msg.Name = name
    /\ Len(e.msg.Arguments) >= 2
    /\ e.msg.Arguments[2].t = "map"
    /\ MapHas(e.msg.Arguments[2].m, "level")
    /\ MapGetV(e.msg.Arguments[2].m, "level") = S1("status")

\* entry e is a read of a _result with command id `id` that carries number 1
IsStreamResultRead(e, id) ==
    /\ e.op = "read" /\ e.err = NoErr /\ IsCommand(e.msg)
    /\ e.msg.CommandID = id /\ e.msg.Name = "_result"
    /\ Len(e.msg.Arguments) >= 2
    /\ e.msg.Arguments[2] = AMFNumber(1)

(***************************************************************************)
(* C5: a playing client writes window-ack-size, peer-bandwidth,            *)
(* chunk-size, connect (1), createStream (2), set-buffer-length, play (3)  *)
(* in this order and nothing else; createStream comes after a read of      *)
(* _result 1 with level "status", set-buffer-length and play after a read  *)
(* of _result 2 carrying 1, and a successful return after a read of        *)
(* onStatus 3 with level "status", which is the last channel operation.    *)
(***************************************************************************)
C5_PlayOrder ==
    << << "SetWindowAckSize", 0 >>, << "SetPeerBandwidth", 0 >>,
       << "SetChunkSize", 0 >>, << "connect", 1 >>, << "createStream", 2 >>,
       << "UserControlSetBufferLength", 0 >>, << "play", 3 >> >>

C5_ClientPlayOrder ==
    (op = "InitializeClient" /\ ~cli.isPublishing) =>
       /\ IsPrefix(WriteLabels, C5_PlayOrder)
       /\ \A j \in 1..Len(log) :
             /\ IsWriteOf(log[j], << "createStream", 2 >>) =>
                   \E k \in 1..(j - 1) : IsStatusRead(log[k], 1, "_result")
             /\ (\/ IsWriteOf(log[j], << "UserControlSetBufferLength", 0 >>)
                 \/ IsWriteOf(log[j], << "play", 3 >>)) =>
                   \E k \in 1..(j - 1) : IsStreamResultRead(log[k], 2)
       /\ (cli.pc = "done" /\ cli.err = NoErr) =>
             /\ NoChanError
             /\ WriteLabels = C5_PlayOrder
             /\ IsStatusRead(log[Len(log)], 3, "onStatus")

C5_Witness ==
    /\ op = "InitializeClient" /\ ~cli.isPublishing
    /\ cli.pc = "done" /\ cli.err = NoErr
    /\ Len(WriteLabels) = 7

(***************************************************************************)
(* C6: a publishing client writes, after the control messages and connect  *)
(* (1) and a read of _result 1 with level "status", releaseStream (2),     *)
(* FCPublish (3) and createStream (4) as three consecutive channel         *)
(* operations (no read between them); publish (5) comes after a read of    *)
(* _result 4 carrying 1, and a successful return after a read of onStatus  *)
(* 5 with level "status", which is the last channel operation.             *)
(***************************************************************************)
C6_PublishOrder ==
    << << "SetWindowAckSize", 0 >>, << "SetPeerBandwidth", 0 >>,
       << "SetChunkSize", 0 >>, << "connect", 1 >>, << "releaseStream", 2 >>,
       << "FCPublish", 3 >>, << "createStream", 4 >>, << "publish", 5 >> >>

C6_ClientPublishOrder ==
    (op = "InitializeClient" /\ cli.isPublishing) =>
       /\ IsPrefix(WriteLabels, C6_PublishOrder)
       /\ \A j \in 1..Len(log) :
             /\ IsWriteOf(log[j], << "releaseStream", 2 >>) =>
                   /\ \E k \in 1..(j - 1) : IsStatusRead(log[k], 1, "_result")
                   /\ j < Len(log) => IsWriteOf(log[j + 1], << "FCPublish", 3 >>)
                   /\ j + 1 < Len(log) => IsWriteOf(log[j + 2], << "createStream", 4 >>)
             /\ IsWriteOf(log[j], << "publish", 5 >>) =>
                   \E k \in 1..(j - 1) : IsStreamResultRead(log[k], 4)
       /\ (cli.pc = "done" /\ cli.err = NoErr) =>
             /\ NoChanError
             /\ WriteLabels = C6_PublishOrder
             /\ IsStatusRead(log[Len(log)], 5, "onStatus")

C6_Witness ==
    /\ op = "InitializeClient" /\ cli.isPublishing
    /\ cli.pc = "done" /\ cli.err = NoErr
    /\ Len(WriteLabels) = 8

(***************************************************************************)
(* C7: in every iteration of readCommandResult that reads a message: a     *)
(* message that is no command with both the expected id and the expected   *)
(* name changes nothing but the log (the call keeps reading); a command    *)
(* with both ends the call, with success (the client goes on to its next   *)
(* step, or returns nil after the last one) when the status predicate      *)
(* holds on it, else with the "server refused" error; after a return no    *)
(* message is read.                                                        *)
(***************************************************************************)
C7_Matches(m, st) == IsCommand(m) /\ m.CommandID = st.id /\ m.Name = st.name

C7_StatusHolds(m, st) ==
    IF st.f = "resultIsOK1"
    THEN /\ Len(m.Arguments) >= 2
         /\ m.Arguments[2].t = "map"
         /\ MapHas(m.Arguments[2].m, "level")
         /\ MapGetV(m.Arguments[2].m, "level") = S1("status")
    ELSE /\ Len(m.Arguments) >= 2
         /\ m.Arguments[2] = AMFNumber(1)

C7_SkipUntilMatch ==
    [][ /\ (/\ op = "InitializeClient" /\ cli.pc = "run"
            /\ Len(log') = Len(log) + 1
            /\ log'[Len(log')].op = "read" /\ log'[Len(log')].err = NoErr) =>
              LET m == log'[Len(log')].msg
                  st == CliStep
              IN /\ st.k = "await"
                 /\ ~C7_Matches(m, st) => cli' = cli
                 /\ (C7_Matches(m, st) /\ C7_StatusHolds(m, st)) =>
                       /\ cli'.err = NoErr
                       /\ IF cli.i < Len(CliSteps(cli))
                          THEN cli' = [cli EXCEPT !.i = cli.i + 1]
                          ELSE cli'.pc = "done"
                 /\ (C7_Matches(m, st) /\ ~C7_StatusHolds(m, st)) =>
                       /\ cli'.pc = "done"
                       /\ cli'.err = "server refused connect request"
        /\ (op = "InitializeClient" /\ cli.pc = "done") => log' = log ]_vars

C7_Witness ==
    /\ op = "InitializeClient"
    /\ cli.pc = "done" /\ cli.err = NoErr
    /\ CountOp(log, "read") = 3 + MaxCliSkips
    /\ \E k \in 2..Len(log) :
          /\ log[k].op = "read" /\ log[k - 1].op = "read"
          /\ IsCommand(log[k - 1].msg)

(***************************************************************************)
(* C8.  In InitializeClient, InitializeServer and ReadTracks, as soon as a *)
(* message read or write on the channel returns an error, the operation    *)
(* returns that same error and performs no further read or write: in every *)
(* reachable state a failed channel operation is the last entry of the     *)
(* channel log, the operation has returned, and it has returned the error  *)
(* of that entry.                                                          *)
(***************************************************************************)
OpReturned ==
    CASE op = "InitializeServer" -> srv.pc = "done"
      [] op = "InitializeClient" -> cli.pc = "done"
      [] op = "ReadTracks" -> trk.pc = "done"

OpReturnedErr ==
    CASE op = "InitializeServer" -> srv.ret.err
      [] op = "InitializeClient" -> cli.err
      [] op = "ReadTracks" -> trk.ret.err

C8_ChannelErrorEndsOperation ==
    \A k \in 1..Len(log) :
        log[k].err # NoErr =>
            /\ k = Len(log)
            /\ OpReturned
            /\ OpReturnedErr = log[k].err

\* a write of the play sequence of InitializeServer has failed after
\* earlier reads and writes succeeded
C8_Witness ==
    /\ op = "InitializeServer"
    /\ Len(log) >= 6
    /\ log[Len(log)].op = "write"
    /\ log[Len(log)].err = "i/o timeout"
    /\ srv.pc = "done"
    /\ srv.ret.err = "i/o timeout"

(***************************************************************************)
(* Vocabulary of the properties of ReadTracks.                             *)
(***************************************************************************)
\* the index in the log of the first message ReadTracks did not skip, 0
\* when there is none yet
TrkFirstIdx ==
    LET ok(k) == log[k].err = NoErr /\ ~TrkSkips(log[k].msg)
    IN IF \E k \in 1..Len(log) : ok(k)
       THEN CHOOSE k \in 1..Len(log) : ok(k) /\ \A j \in 1..(k - 1) : ~ok(j)
       ELSE 0

\* ReadTracks read a data message that holds onMetaData
TrkGotMetadata ==
    /\ op = "ReadTracks"
    /\ TrkFirstIdx > 0
    /\ IsOnMetaData(log[TrkFirstIdx].msg)

\* what follows "onMetaData" in the message
TrkMetadataArgs == Tail(StripSetDataFrame(log[TrkFirstIdx].msg.Payload))

TrkMetadataIsMap == Len(TrkMetadataArgs) = 1 /\ TrkMetadataArgs[1].t = "map"

\* the map does not declare a track under key: absent, or numeric 0
MdUndeclared(key) ==
    \/ ~MapHas(TrkMetadataArgs[1].m, key)
    \/ MapGetV(TrkMetadataArgs[1].m, key) = AMFNumber(0)

\* the map declares a supported codec under key: number id or string name
MdDeclares(key, id, name) ==
    /\ MapHas(TrkMetadataArgs[1].m, key)
    /\ MapGetV(TrkMetadataArgs[1].m, key) \in {AMFNumber(id), S1(name)}

MdDeclaresVideo == MdDeclares("videocodecid", 7, "avc1")

MdDeclaresAudio == MdDeclares("audiocodecid", 10, "mp4a")

\* the state of the heuristic scan run on the entries k.. of log l from
\* state t; "overrun" when entries remain after the scan has returned
RECURSIVE ScanFrom(_, _, _)
ScanFrom(t, l, k) ==
    IF k > Len(l) THEN t
    ELSE IF t.pc = "done" THEN [t EXCEPT !.pc = "overrun"]
    ELSE IF l[k].err # NoErr
    THEN ScanFrom(MessagesReturn(t, NoTrack, NoTrack, l[k].err), l, k + 1)
    ELSE ScanFrom(readTracksFromMessagesStep(t, l[k].msg), l, k + 1)

(***************************************************************************)
(* C9.  Empty metadata is never an error of ReadTracks: when the           *)
(* onMetaData map declares neither a video nor an audio track (key absent  *)
(* or numeric 0 for both), ReadTracks reads the next message and runs      *)
(* heuristic discovery starting from it, and its result is the heuristic's *)
(* result; any other error of metadata-driven discovery (invalid shape,    *)
(* unsupported codec identifier, unexpected media packet) is returned with *)
(* no fallback, that is with no further read.                              *)
(***************************************************************************)
C9_Empty ==
    /\ TrkMetadataIsMap
    /\ MdUndeclared("videocodecid")
    /\ MdUndeclared("audiocodecid")

C9_FallsBack ==
    /\ trk.ret.err # errEmptyMetadata
    /\ IF Len(log) = TrkFirstIdx THEN trk.pc = "fallback"
       ELSE IF log[TrkFirstIdx + 1].err # NoErr
       THEN /\ trk.pc = "done"
            /\ trk.ret.err = log[TrkFirstIdx + 1].err
            /\ Len(log) = TrkFirstIdx + 1
       ELSE LET h == ScanFrom(TrkEntry, log, TrkFirstIdx + 1)
            IN /\ trk.pc = h.pc
               /\ trk.ret = h.ret

C9_HardError ==
    IF ~TrkMetadataIsMap THEN "invalid metadata"
    ELSE IF ~(MdUndeclared("videocodecid") \/ MdDeclaresVideo)
    THEN "unsupported video codec"
    ELSE IF ~(MdUndeclared("audiocodecid") \/ MdDeclaresAudio)
    THEN "unsupported audio codec"
    ELSE NoErr

C9_Unexpected(k) ==
    IF log[k].msg.typ = "Video" /\ ~MdDeclaresVideo THEN "unexpected video packet"
    ELSE IF log[k].msg.typ = "Audio" /\ ~MdDeclaresAudio THEN "unexpected audio packet"
    ELSE NoErr

C9_NoFallback ==
    IF C9_HardError # NoErr
    THEN /\ trk.pc = "done"
         /\ trk.ret.err = C9_HardError
         /\ Len(log) = TrkFirstIdx
    ELSE \A k \in (TrkFirstIdx + 1)..Len(log) :
            C9_Unexpected(k) # NoErr =>
                /\ trk.pc = "done"
                /\ trk.ret.err = C9_Unexpected(k)
                /\ Len(log) = k

C9_EmptyMetadataFallsBack ==
    TrkGotMetadata => IF C9_Empty THEN C9_FallsBack ELSE C9_NoFallback

\* after empty metadata the scan has read three messages and returned the
\* audio track it found, without error
C9_Witness ==
    /\ TrkGotMetadata
    /\ C9_Empty
    /\ Len(log) = TrkFirstIdx + 3
    /\ trk.pc = "done"
    /\ trk.ret.err = NoErr
    /\ ~trk.ret.audioTrack.nil

(***************************************************************************)
(* Vocabulary of C10: metadata-driven discovery has succeeded, and which   *)
(* messages yield a track.                                                 *)
(***************************************************************************)
MetadataSucceeded ==
    /\ TrkGotMetadata
    /\ TrkMetadataIsMap
    /\ MdDeclaresVideo \/ MdDeclaresAudio
    /\ trk.pc = "done"
    /\ trk.ret.err = NoErr

IsVideoConfig(m) == m.typ = "Video" /\ m.H264Type = 0

IsAudioConfig(m) == m.typ = "Audio" /\ m.AACType = 0

\* a key frame whose payload holds a VPS, an SPS and a PPS
IsParameterKeyFrame(m) ==
    /\ m.typ = "Video"
    /\ m.H264Type = 1
    /\ m.IsKeyFrame
    /\ m.Payload.k = "avcc"
    /\ \A typ \in {32, 33, 34} :
          \E i \in 1..Len(m.Payload.nalus) : H265NALUType(m.Payload.nalus[i]) = typ

\* the index of the first message after the metadata that satisfies P, 0
\* when there is none
FirstAfterMetadata(P(_)) ==
    LET K == (TrkFirstIdx + 1)..Len(log)
    IN IF \E k \in K : P(log[k].msg)
       THEN CHOOSE k \in K : P(log[k].msg) /\ \A j \in K : j < k => ~P(log[j].msg)
       ELSE 0

H264TrackOf(m) ==
    [nil |-> FALSE, codec |-> "H264", PayloadTyp |-> 96,
     SPS |-> m.Payload.SPS, PPS |-> m.Payload.PPS, PacketizationMode |-> 1]

AACTrackOf(m) ==
    [nil |-> FALSE, codec |-> "MPEG4Audio", PayloadTyp |-> 96,
     Config |-> m.Payload.Config, SizeLength |-> 13,
     IndexLength |-> 3, IndexDeltaLength |-> 3]

H265TrackOf(m) == trackFromH265KeyFrame(m.Payload).track

Max2(a, b) == IF a >= b THEN a ELSE b

\* a track is returned for exactly the declared types
C10_TrackIffDeclared ==
    /\ (trk.ret.videoTrack # NoTrack) <=> MdDeclaresVideo
    /\ (trk.ret.audioTrack # NoTrack) <=> MdDeclaresAudio
    /\ MdDeclaresVideo => ~trk.ret.videoTrack.nil
    /\ MdDeclaresAudio => ~trk.ret.audioTrack.nil

(***************************************************************************)
(* C10 as stated.  Metadata-driven discovery, when it succeeds, returns a  *)
(* video track iff the metadata declared a supported video codec and an    *)
(* audio track iff it declared a supported audio codec; it returns at the  *)
(* first message after which every declared type is resolved; and each     *)
(* returned track is built from the first decoder-configuration message of *)
(* its type.  This statement does not hold: a video track may be built     *)
(* from a key frame, with no decoder-configuration message read.           *)
(***************************************************************************)
C10_AsStated ==
    MetadataSucceeded =>
        LET fv == FirstAfterMetadata(IsVideoConfig)
            fa == FirstAfterMetadata(IsAudioConfig)
        IN /\ C10_TrackIffDeclared
           /\ MdDeclaresVideo =>
                 /\ fv > 0
                 /\ trk.ret.videoTrack = H264TrackOf(log[fv].msg)
           /\ MdDeclaresAudio =>
                 /\ fa > 0
                 /\ trk.ret.audioTrack = AACTrackOf(log[fa].msg)
           /\ Len(log) = Max2(IF MdDeclaresVideo THEN fv ELSE 0,
                              IF MdDeclaresAudio THEN fa ELSE 0)

(***************************************************************************)
(* C10, amended.  Metadata-driven discovery, when it succeeds, returns a   *)
(* video track iff the metadata declared a supported video codec and an    *)
(* audio track iff it declared a supported audio codec; it returns at the  *)
(* first message after which every declared type is resolved; the audio    *)
(* track is built from the first audio decoder-configuration message, and  *)
(* the video track from the first video message that is either a           *)
(* decoder-configuration message (an H264 track) or a key frame carrying   *)
(* a VPS, an SPS and a PPS (an H265 track); a later message of the same    *)
(* type never replaces a captured track.                                   *)
(***************************************************************************)
C10_YieldsVideo(m) == IsVideoConfig(m) \/ IsParameterKeyFrame(m)

C10_MetadataDiscovery ==
    MetadataSucceeded =>
        LET fv == FirstAfterMetadata(C10_YieldsVideo)
            fa == FirstAfterMetadata(IsAudioConfig)
        IN /\ C10_TrackIffDeclared
           /\ MdDeclaresVideo =>
                 /\ fv > 0
                 /\ trk.ret.videoTrack =
                       IF IsVideoConfig(log[fv].msg) THEN H264TrackOf(log[fv].msg)
                       ELSE H265TrackOf(log[fv].msg)
           /\ MdDeclaresAudio =>
                 /\ fa > 0
                 /\ trk.ret.audioTrack = AACTrackOf(log[fa].msg)
           /\ Len(log) = Max2(IF MdDeclaresVideo THEN fv ELSE 0,
                              IF MdDeclaresAudio THEN fa ELSE 0)

\* both types declared; the video track was built from a key frame, a
\* video decoder-configuration message came later and did not replace it,
\* and discovery returned at the audio decoder-configuration message
C10_Witness ==
    /\ MetadataSucceeded
    /\ MdDeclaresVideo
    /\ MdDeclaresAudio
    /\ trk.ret.videoTrack.codec = "H265"
    /\ \E k \in (TrkFirstIdx + 1)..Len(log) :
          /\ IsVideoConfig(log[k].msg)
          /\ k > FirstAfterMetadata(IsParameterKeyFrame)
    /\ IsAudioConfig(log[Len(log)].msg)

(***************************************************************************)
(* Vocabulary of C11 and C12: the scan of readTracksFromMessages.          *)
(***************************************************************************)
\* the index in the log of the message the scan started from: the first
\* message not skipped, or the one read after empty metadata; 0 when the
\* scan has not started
ScanStartIdx ==
    IF op # "ReadTracks" \/ TrkFirstIdx = 0 THEN 0
    ELSE IF ~IsOnMetaData(log[TrkFirstIdx].msg) THEN TrkFirstIdx
    ELSE IF /\ C9_Empty
            /\ Len(log) > TrkFirstIdx
            /\ log[TrkFirstIdx + 1].err = NoErr
    THEN TrkFirstIdx + 1
    ELSE 0

IsVideo(m) == m.typ = "Video"

IsAudio(m) == m.typ = "Audio"

IsAudioOrVideo(m) == IsVideo(m) \/ IsAudio(m)

\* the index of the first message of the scan that satisfies P, 0 when
\* there is none
FirstInScan(P(_)) ==
    LET K == {k \in ScanStartIdx..Len(log) : log[k].err = NoErr /\ P(log[k].msg)}
    IN IF ScanStartIdx > 0 /\ K # {}
       THEN CHOOSE k \in K : \A j \in K : k <= j
       ELSE 0

IsValidVideoConfig(m) == IsVideoConfig(m) /\ m.Payload.k = "avcC"

IsValidAudioConfig(m) == IsAudioConfig(m) /\ m.Payload.k = "asc"

\* the scan is over, and not because a read or a configuration failed
ScanReturned ==
    /\ ScanStartIdx > 0
    /\ trk.pc = "done"
    /\ log[Len(log)].err = NoErr
    /\ trk.ret.err \in {NoErr, "no tracks found"}

BothCaptured == ~trk.ret.videoTrack.nil /\ ~trk.ret.audioTrack.nil

\* the scan was ended by the timestamp of the last message read
ScanEndedByTimestamp == ScanReturned /\ ~BothCaptured

(***************************************************************************)
(* C11 as stated.  In heuristic discovery the one-second window is tracked *)
(* independently per media type: a video message ends the scan only when   *)
(* its timestamp is at least one second past the first observed video      *)
(* timestamp, and an audio message ends the scan only when its timestamp   *)
(* is at least one second past the first observed audio timestamp.  The    *)
(* code keeps one startTime for both types, and the statement fails.       *)
(***************************************************************************)
C11_PerTypeWindow ==
    ScanEndedByTimestamp =>
        LET m == log[Len(log)].msg
        IN /\ IsVideo(m) => m.DTS - log[FirstInScan(IsVideo)].msg.DTS >= OneSecond
           /\ IsAudio(m) => m.DTS - log[FirstInScan(IsAudio)].msg.DTS >= OneSecond

(***************************************************************************)
(* C12.  Heuristic discovery fails with "no tracks found" only after it    *)
(* has processed an audio or video message whose timestamp is at least one *)
(* second past the window start (the timestamp of the first audio or video *)
(* message of the scan), never before; within the window it keeps reading. *)
(* It returns successfully without reading any further message the instant *)
(* both a video and an audio track have been captured, and when the window *)
(* elapses with exactly one track captured it returns that track without   *)
(* error.                                                                  *)
(***************************************************************************)
C12_WindowElapsed ==
    LET m == log[Len(log)].msg
    IN /\ IsAudioOrVideo(m)
       /\ m.DTS - log[FirstInScan(IsAudioOrVideo)].msg.DTS >= OneSecond

C12_OnlyAfterWindow ==
    ScanEndedByTimestamp => C12_WindowElapsed

C12_StopsWhenBothCaptured ==
    LET fv == FirstInScan(IsValidVideoConfig)
        fa == FirstInScan(IsValidAudioConfig)
    IN (ScanStartIdx > 0 /\ fv > 0 /\ fa > 0) =>
          /\ Len(log) = Max2(fv, fa)
          /\ trk.pc = "done"
          /\ trk.ret.err = NoErr
          /\ trk.ret.videoTrack = H264TrackOf(log[fv].msg)
          /\ trk.ret.audioTrack = AACTrackOf(log[fa].msg)

C12_OneTrackOrNone ==
    ScanEndedByTimestamp =>
        LET fv == FirstInScan(IsValidVideoConfig)
            fa == FirstInScan(IsValidAudioConfig)
        IN /\ (fv = 0 /\ fa = 0) <=> trk.ret.err = "no tracks found"
           /\ fv > 0 => /\ trk.ret.videoTrack = H264TrackOf(log[fv].msg)
                        /\ trk.ret.audioTrack.nil
           /\ fa > 0 => /\ trk.ret.audioTrack = AACTrackOf(log[fa].msg)
                        /\ trk.ret.videoTrack.nil

C12_WindowAndEarlyStop ==
    /\ C12_OnlyAfterWindow
    /\ C12_StopsWhenBothCaptured
    /\ C12_OneTrackOrNone

\* the scan read two messages within the window, then one past it, found
\* no configuration and failed
C12_Witness ==
    /\ ScanEndedByTimestamp
    /\ Len(log) >= ScanStartIdx + 2
    /\ trk.ret.err = "no tracks found"
    /\ C12_WindowElapsed

(***************************************************************************)
(* Vocabulary of the properties of the H265 format processor.              *)
(***************************************************************************)
\* the flow was given a batch of packets and has extracted from the first
InProcessRTP(fl) == fl.pc # "idle" /\ fl.given.rtpPackets # <<>>

\* the first packet of the batch the flow was given
FirstPkt(fl) == fl.given.rtpPackets[1]

IsAggregation(pkt) ==
    Len(pkt.Payload) >= 2 /\ (pkt.Payload[1] \div 2) % 64 = 48

\* the declared size of the sub-unit at the head of b
DeclaredSize(b) == b[1] * 256 + b[2]

\* b is a sequence of sub-units each with a size of its own that fits
RECURSIVE WellFormed(_)
WellFormed(b) ==
    \/ Len(b) = 0
    \/ /\ Len(b) >= 2
       /\ DeclaredSize(b) >= 1
       /\ DeclaredSize(b) <= Len(b) - 2
       /\ WellFormed(Skip(b, 2 + DeclaredSize(b)))

\* some sub-unit of b declares more bytes than remain
RECURSIVE Truncated(_)
Truncated(b) ==
    /\ Len(b) >= 2
    /\ DeclaredSize(b) >= 1
    /\ \/ DeclaredSize(b) > Len(b) - 2
       \/ Truncated(Skip(b, 2 + DeclaredSize(b)))

\* the sub-units of a well-formed b
RECURSIVE SubUnits(_)
SubUnits(b) ==
    IF Len(b) = 0 THEN <<>>
    ELSE <<Take(Skip(b, 2), DeclaredSize(b))>> \o SubUnits(Skip(b, 2 + DeclaredSize(b)))

\* the sub-units of us whose own first byte says type typ
UnitsOfType(us, typ) == SelectSeq(us, LAMBDA u : (u[1] \div 2) % 64 = typ)

(***************************************************************************)
(* C13 as stated.  Parameter-set extraction from an aggregation-unit       *)
(* packet classifies each length-prefixed sub-unit by the sub-unit's own   *)
(* type: for an aggregation unit packing a VPS, an SPS and a PPS with      *)
(* well-formed lengths, rtpH265ExtractVPSSPSPPS returns all three, each    *)
(* equal to the sub-unit's bytes.  The code classifies by the first byte   *)
(* of the packet, and the statement fails.                                 *)
(***************************************************************************)
C13_AggregationExtraction ==
    \A f \in h265.flows :
        LET fl == h265.p[f]
            us == SubUnits(Skip(FirstPkt(fl).Payload, 2))
        IN (/\ InProcessRTP(fl)
            /\ IsAggregation(FirstPkt(fl))
            /\ WellFormed(Skip(FirstPkt(fl).Payload, 2))
            /\ \A typ \in {32, 33, 34} : Len(UnitsOfType(us, typ)) = 1)
           => /\ fl.ext.vps = UnitsOfType(us, 32)[1]
              /\ fl.ext.sps = UnitsOfType(us, 33)[1]
              /\ fl.ext.pps = UnitsOfType(us, 34)[1]

(***************************************************************************)
(* C14.  Parameter-set extraction never fails and never reads outside the  *)
(* packet: for an aggregation-unit packet in which some sub-unit's         *)
(* declared length exceeds the remaining bytes, rtpH265ExtractVPSSPSPPS    *)
(* returns nothing for all of VPS, SPS and PPS, and the update that        *)
(* follows stores nothing and leaves the track's parameter sets as they    *)
(* were.                                                                   *)
(***************************************************************************)
C14_TruncatedCase(fl) ==
    /\ InProcessRTP(fl)
    /\ IsAggregation(FirstPkt(fl))
    /\ Truncated(Skip(FirstPkt(fl).Payload, 2))

C14_TruncatedAggregation ==
    \A f \in h265.flows :
        LET fl == h265.p[f]
        IN /\ InProcessRTP(fl) => ~fl.ext.panic
           /\ C14_TruncatedCase(fl) =>
                 /\ fl.ext = NoParams
                 /\ fl.stores = <<>>
                 /\ ~Concurrent => h265.format = fl.format0

\* the update is over for a packet whose first sub-unit, a VPS, fits and
\* whose second declares more bytes than remain
C14_Witness ==
    LET fl == h265.p[1]
    IN /\ C14_TruncatedCase(fl)
       /\ DeclaredSize(Skip(FirstPkt(fl).Payload, 2)) = 2
       /\ fl.pc = "done"

(***************************************************************************)
(* Vocabulary: the stores of a call.                                       *)
(***************************************************************************)
Fields == {"VPS", "SPS", "PPS"}

\* the update of the call is over
UpdateOver(fl) == InProcessRTP(fl) /\ fl.pc \in {"size", "decode", "encode", "done"}

\* the stores the flow made to field in this call
StoresOf(fl, field) == SelectSeq(fl.stores, LAMBDA st : st.field = field)

(***************************************************************************)
(* C15.  Parameter-set update is idempotent within one flow: for each of   *)
(* VPS, SPS and PPS independently, updateTrackParametersFromRTPPacket      *)
(* stores a value only when the extracted bytes are present and differ     *)
(* from the currently stored bytes (one store when they do, none when they *)
(* do not), so feeding the same parameter-set packet twice in a row causes *)
(* exactly one store and the second call leaves the track unchanged.       *)
(***************************************************************************)
C15_StoresOnlyDifferent(fl) ==
    \A k \in 1..Len(fl.stores) :
        LET st == fl.stores[k]
        IN /\ st.new # NilBytes
           /\ st.new = ExtField(fl.ext, st.field)
           /\ st.new # st.old

C15_OneStoreWhenDifferent(fl) ==
    UpdateOver(fl) =>
        \A field \in Fields :
            LET new == ExtField(fl.ext, field)
            IN /\ Len(StoresOf(fl, field)) =
                     IF new # NilBytes /\ new # SafeGet(fl.format0, field)
                     THEN 1 ELSE 0
               /\ new # NilBytes => SafeGet(h265.format, field) = new

C15_SecondCallStoresNothing(fl) ==
    (InProcessRTP(fl) /\ fl.prev = FirstPkt(fl).id) =>
        /\ fl.stores = <<>>
        /\ h265.format = fl.format0

C15_IdempotentUpdate ==
    ~Concurrent =>
        \A f \in h265.flows :
            /\ C15_StoresOnlyDifferent(h265.p[f])
            /\ C15_OneStoreWhenDifferent(h265.p[f])
            /\ C15_SecondCallStoresNothing(h265.p[f])

\* the flow was given a packet with a new VPS twice in a row: the first
\* call stored it, the second call is over and stored nothing
C15_Witness ==
    LET fl == h265.p[1]
    IN /\ ~Concurrent
       /\ UpdateOver(fl)
       /\ fl.calls = 2
       /\ fl.prev = FirstPkt(fl).id
       /\ fl.ext.vps # NilBytes
       /\ fl.ext.vps # InitialFormat.VPS
       /\ h265.format.VPS = fl.ext.vps
       /\ fl.stores = <<>>

(***************************************************************************)
(* C16.  Size-triggered mode switch: a processor with no encoder, given a  *)
(* batch whose first packet's marshaled size (after padding is stripped)   *)
(* exceeds the maximum packet size, has an active encoder after process,   *)
(* and that encoder is seeded with the triggering packet's SSRC, sequence  *)
(* number, timestamp and payload type; a first packet whose size does not  *)
(* exceed the ceiling never creates an encoder.                            *)
(***************************************************************************)
\* the size check of the call is over
SizeCheckOver(fl) == InProcessRTP(fl) /\ fl.pc \in {"decode", "encode", "done"}

\* the marshaled size of a packet without its padding
SizeWithoutPadding(pkt) == 12 + Len(pkt.Payload)

C16_SizeTriggeredSwitch ==
    \A f \in h265.flows :
        LET fl == h265.p[f]
            pkt == FirstPkt(fl)
        IN /\ (InProcessRTP(fl) /\ fl.encoder0.nil /\ ~SizeCheckOver(fl)) =>
                 fl.encoder.nil
           /\ (SizeCheckOver(fl) /\ fl.encoder0.nil) =>
                 IF SizeWithoutPadding(pkt) > maxPacketSize
                 THEN /\ ~fl.encoder.nil
                      /\ fl.encoder.SSRC = pkt.SSRC
                      /\ fl.encoder.InitialSequenceNumber = pkt.SequenceNumber
                      /\ fl.encoder.InitialTimestamp = pkt.Timestamp
                      /\ fl.encoder.PayloadType = pkt.PayloadType
                 ELSE fl.encoder.nil

\* process is over for an oversize packet given to a processor that had no
\* encoder, and the processor has one
C16_Witness ==
    LET fl == h265.p[1]
    IN /\ InProcessRTP(fl)
       /\ fl.pc = "done"
       /\ fl.encoder0.nil
       /\ SizeWithoutPadding(FirstPkt(fl)) > maxPacketSize
       /\ ~fl.encoder.nil

(***************************************************************************)
(* C17.  Decode tolerance: when decoding the batch's packet reports "more  *)
(* packets needed" or "non-starting packet without a preceding starting    *)
(* packet", process returns no error, produces no output units (the        *)
(* batch's unit list is not set) and does not invoke the encoder; any      *)
(* other decode error is returned to the caller and the encoder is         *)
(* likewise not invoked.                                                   *)
(***************************************************************************)
C17_DecodeTolerance ==
    \A f \in h265.flows :
        LET fl == h265.p[f]
        IN fl.decodeErr \notin {"none", NoErr} =>
              /\ fl.pc = "done"
              /\ fl.encodes = <<>>
              /\ IF fl.decodeErr \in {ErrMorePacketsNeeded,
                                      ErrNonStartingPacketAndNoPrevious}
                 THEN fl.err = NoErr /\ fl.tdata.nalus = fl.given.nalus
                 ELSE fl.err = fl.decodeErr

\* a processor with an encoder was told that more packets are needed
C17_Witness ==
    LET fl == h265.p[1]
    IN /\ fl.decodeErr = ErrMorePacketsNeeded
       /\ ~fl.encoder.nil
       /\ fl.pc = "done"
       /\ fl.err = NoErr

(***************************************************************************)
(* C18 as stated.  A parameter set of the track is replaced only when the  *)
(* newly observed bytes differ from the bytes stored at the moment of the  *)
(* store, also when several flows (each with its own format processor)     *)
(* update the same track concurrently: under every interleaving of their   *)
(* get and set steps, no store writes bytes equal to the value already     *)
(* stored.  The comparison and the store are two steps, and the statement  *)
(* fails.                                                                  *)
(***************************************************************************)
C18_NoRedundantStore ==
    \A f \in h265.flows :
        \A k \in 1..Len(h265.p[f].stores) :
            h265.p[f].stores[k].new # h265.p[f].stores[k].old

(***************************************************************************)
(* C19 as stated.  The encode step of process runs only if a re-encoder is *)
(* active: for every batch and every processor state, the encoder is       *)
(* invoked only when the processor has an encoder.  A batch of units given *)
(* to a processor without encoder reaches line 201, and the statement      *)
(* fails.                                                                  *)
(***************************************************************************)
C19_EncodeOnlyWithEncoder ==
    \A f \in h265.flows :
        \A k \in 1..Len(h265.p[f].encodes) : h265.p[f].encodes[k].present

(***************************************************************************)
(* C20.  Pass-through: when the processor has no encoder after the size    *)
(* check, process returns no error and leaves the batch's raw packet list  *)
(* as it was given (same packets, same order; the first packet without its *)
(* padding), whether or not non-transport readers exist and whether the    *)
(* decode succeeded or hit a tolerated condition; no decoder is created    *)
(* when, in addition, there are no non-transport readers.                  *)
(***************************************************************************)
C20_PassThroughCase(fl) ==
    /\ InProcessRTP(fl)
    /\ fl.pc = "done"
    /\ fl.encoder.nil
    /\ fl.decodeErr \in {"none", NoErr, ErrMorePacketsNeeded,
                         ErrNonStartingPacketAndNoPrevious}

C20_PassThrough ==
    \A f \in h265.flows :
        LET fl == h265.p[f]
        IN C20_PassThroughCase(fl) =>
              /\ fl.err = NoErr
              /\ Len(fl.tdata.rtpPackets) = Len(fl.given.rtpPackets)
              /\ \A k \in 1..Len(fl.given.rtpPackets) :
                    fl.tdata.rtpPackets[k] =
                        IF k = 1
                        THEN [fl.given.rtpPackets[1] EXCEPT !.Padding = FALSE,
                                                            !.PaddingSize = 0]
                        ELSE fl.given.rtpPackets[k]
              /\ ~fl.hasNonRTSPReaders =>
                    /\ fl.decoder = fl.decoder0
                    /\ fl.decodeErr = "none"

\* a batch of two packets passed through a processor with non-transport
\* readers whose decoder needs more packets
C20_Witness ==
    LET fl == h265.p[1]
    IN /\ C20_PassThroughCase(fl)
       /\ fl.hasNonRTSPReaders
       /\ fl.decodeErr = ErrMorePacketsNeeded
       /\ Len(fl.given.rtpPackets) = 2
       /\ fl.decoder

\* C21: the switch from pass-through to re-encoding is one-way and happens
\* at most once: no step of process, in any call, changes or removes the
\* encoder of a format processor that has one, whether newFormatProcessorH265
\* created it or an oversize packet seeded it; a later oversize packet seeds
\* no new encoder.
C21_OneWaySwitch ==
    [][\A f \in Flows :
          ~h265.p[f].encoder.nil => h265'.p[f].encoder = h265.p[f].encoder]_vars

\* a second oversize packet has passed line 146 of a format processor whose
\* encoder the first one seeded
C21_Witness ==
    \E f \in h265.flows :
       LET fl == h265.p[f]
       IN /\ fl.calls = 2
          /\ fl.pc = "decode"
          /\ fl.prev = PktOversize.id
          /\ fl.given.rtpPackets = <<PktOversize2>>
          /\ fl.encoder0 = SeededEncoder(PktOversize, InitialFormat)
          /\ fl.encoder = fl.encoder0

\* C24: a raw packet is never forwarded by a format processor that has an
\* encoder: when process returns, with or without an error, and the processor
\* has an encoder, the packet list of the batch is empty, or process returned
\* nil and the list is what the one Encode of this call returned for the
\* units of the batch; after a decode that failed the list is empty.
C24_NoRawForward ==
    \A f \in h265.flows :
       LET fl == h265.p[f]
       IN (fl.pc = "done" /\ ~fl.encoder.nil) =>
             /\ \/ fl.tdata.rtpPackets = <<>>
                \/ /\ fl.err = NoErr
                   /\ Len(fl.encodes) = 1
                   /\ fl.encodes[1].present
                   /\ fl.encodes[1].nalus = fl.tdata.nalus
                   /\ fl.tdata.rtpPackets = fl.encodes[1].pkts
             /\ fl.decodeErr \notin {"none", NoErr} => fl.tdata.rtpPackets = <<>>
             /\ \A k \in 1..Len(fl.tdata.rtpPackets) :
                   \A j \in 1..Len(fl.given.rtpPackets) :
                      fl.tdata.rtpPackets[k] # fl.given.rtpPackets[j]

\* process has returned nil on the oversize packet that seeded the encoder,
\* the decoder asking for more packets: the batch is left without packets
C24_Witness ==
    \E f \in h265.flows :
       LET fl == h265.p[f]
       IN /\ fl.pc = "done"
          /\ fl.encoder0.nil
          /\ ~fl.encoder.nil
          /\ fl.given.rtpPackets = <<PktOversize>>
          /\ fl.decodeErr = ErrMorePacketsNeeded
          /\ fl.err = NoErr
          /\ fl.tdata.rtpPackets = <<>>

\* "/" + app + "/" + stream, the path createURL parses
RebuiltPath(app, stream) == <<"/">> \o app \o <<"/">> \o stream

\* two path strings that differ at most by the slash that ends one of them
PathEquivalent(a, b) == a = b \/ a = b \o <<"/">> \/ b = a \o <<"/">>

PairDone == cli.pc = "done" /\ srv.pc = "done"

\* no end has returned an error, and what the server returns is what the
\* client was called with
PairAgreed ==
    /\ cli.err = NoErr
    /\ srv.ret.err = NoErr
    /\ srv.pc = "done" =>
          /\ ~srv.ret.u.nil
          /\ srv.ret.isPublishing = cli.isPublishing
          /\ srv.connectpath = splitPath(cli.u).app
          /\ srv.cmd.Arguments[2].s = splitPath(cli.u).stream
          /\ splitPath(srv.ret.u) = splitPath(cli.u)

\* the server reads a releaseStream or an FCPublish command
ReadsUnanswered ==
    /\ srv.pc = "loop"
    /\ net.c2s # <<>>
    /\ IsCommand(Head(net.c2s))
    /\ Head(net.c2s).Name \in {"releaseStream", "FCPublish"}
    /\ net'.c2s = Tail(net.c2s)

\* C23: a client in InitializeClient and a server in InitializeServer on the
\* two ends of a reliable in-order connection both return, and without error,
\* in the play flow and in the publish flow; the server returns isPublishing
\* as the client was called, and the application and the stream it resolved
\* are those the client's splitPath gave; on releaseStream and FCPublish the
\* server writes nothing and goes on reading commands.
C23_Interoperation ==
    /\ []PairAgreed
    /\ <>PairDone
    /\ [][ReadsUnanswered => net'.s2c = net.s2c /\ srv'.pc = "loop"]_vars

\* a publishing client and its server have both returned, the stream with a
\* query
C23_Witness ==
    /\ PairDone
    /\ cli.isPublishing
    /\ srv.ret.isPublishing
    /\ cli.u.RawQuery # <<>>
    /\ srv.ret.u.RawQuery = cli.u.RawQuery
    /\ net.c2s = <<>>

====
